---- MODULE Spec2Model ----
(***************************************************************************)
(* AloeGraph V2 graph engine: declaration of nodes and edges, compile(),   *)
(* and the invoke() step loop of V2AloeGraph.                              *)
(*                                                                         *)
(* One graph class is declared: the decorators (wrap_edge, wrap_node) run  *)
(* in the class body, then __init_subclass__ collects the wrappers into    *)
(* the node map.  The class defines its own __init__, as EchoAgent and     *)
(* RouterAgent do, or inherits that of V2AloeGraph.  Two instances of the  *)
(* class exist; as in the source, the node map the instances are bound to  *)
(* is one dict object that every instance refers to.                       *)
(*                                                                         *)
(* Each instance is constructed on a state object of its own; set_state,   *)
(* compile(state) and invoke(state) replace it by a new state object that  *)
(* no other instance holds.  A node body is opaque: it returns the state   *)
(* with __EDGE__ set to any name, returns None, or raises, before or after *)
(* it has set __EDGE__: an Exception, which the loop catches, or another   *)
(* exception, which ends invoke.  invoke is split at its while loop: entry *)
(* (InvokeStart), one pass of the loop body (InvokeStep), and the exit     *)
(* through the finally block (InvokeReturn, or the end of the pass in      *)
(* which an exception was raised).  The decorators of an instance are      *)
(* split where the caller gets control: the call that makes the decorator  *)
(* (AloeNode, AloeEdge) and its application to a function.                 *)
(*                                                                         *)
(* RouterAgent (SpecRouter) is a graph of that engine whose delegation     *)
(* node runs the invoke of a registered child graph.  The first-generation *)
(* engine AloeGraph, with completion checks and retries, is SpecV1.        *)
(*                                                                         *)
(* V2AloeConfig (v2_base_model) is not among the sources at hand; its      *)
(* _enter and _exit are modelled from the specification of the state       *)
(* record: they leave the control fields alone, and _enter clears          *)
(* error_message when a fresh run starts.                                  *)
(***************************************************************************)
EXTENDS Integers, Sequences, FiniteSets, TLC

\* ---------------------------------------------------------------- bounds
MaxEdges == 2      \* most edges declared in the class body
MaxLimit == 2      \* largest recursion_limit a caller passes
MaxRegs  == 1      \* registrations made through an instance after the class exists
MaxRetries == 1    \* largest completion_check_retries a caller passes, the default apart
MaxV1Limit == 1    \* largest recursion_limit given to the first-generation invoke
MaxVisits == 2     \* invoke is called on a state with at most this many logged node visits
MaxBodies == 2     \* most node bodies called when whole runs are compared
MaxBatch == 2      \* most refinements in one batch given to apply_refinements
MaxStaged == 2     \* most staged refinements given to apply_refinements
MaxTargets == 1    \* most targets given to apply_refinements

\* ---------------------------------------------------------------- names
END       == "__END__"
NodeNames == {"a", "b"}            \* function names usable for nodes
Alias     == "x"                   \* an explicit edge name, never a node name
Inst      == {"g1", "g2"}          \* the instances of the graph class
NoInst    == "-"                   \* a call that belongs to no instance
NoNode    == ""                    \* attribute start_node not set yet
NoPlan    == [n \in {} |-> <<>>]   \* attribute execution_plan not set yet

Targets   == NodeNames \cup {END}
EdgeNames == Targets \cup {Alias}

VARIABLES
    phase,           \* "class_body" while decorators run, then "defined" ("aborted" if one raised)
    nodes,           \* the wrappers by node name: in the class body the functions decorated
                     \* so far, then self.nodes, the one dict all instances are bound to
    regs,            \* decorators made through instances so far
    pending,         \* the decorator made through an instance and not yet applied
    is_initialized,          \* per instance: _is_initialized
    start_node,      \* per instance: start_node
    execution_plan,  \* per instance: execution_plan
    state,           \* self.state of instance g1: __EDGE__, __INTERRUPT__, error_message
    state2,          \* self.state of instance g2
    pc,              \* "idle", or "loop" while an invoke is inside its while loop
    cur,             \* the instance whose invoke is running
    limit,           \* recursion_limit of the running invoke
    steps,           \* local variable steps of the running invoke
    ran,             \* node bodies called by the running invoke, in order
    obeyed,          \* every body called so far by the running invoke returned
                     \* normally with __EDGE__ naming an edge declared on its node
    caught,          \* the loop caught an exception of the body called in the last pass
    result,          \* what the last call gave its caller
    routes,          \* RouterAgent.routes: the registered routes, in dict order
    log_notifier,    \* the graph (the router; the first-generation AloeGraph) has a log notifier
    offered,         \* what the last getAvailableRoute(parent_state) returned
    delegated,       \* the last call route.invoke(route_state) made by invoke_route
    edges,           \* AloeGraph (first generation): state.edges, the edge of each node
    config,          \* AloeGraph: the AloeConfig state object
    visit,           \* AloeGraph.invoke: the node being run, its retry loop, and counts
    router_agent,    \* ChatAgent.router_agent: the router's compiled flag and state object
    refining         \* a call of apply_refinements: its arguments, the id factory, and what it returned

vars == <<phase, nodes, regs, pending, is_initialized, start_node, execution_plan,
          state, state2, pc, cur, limit, steps, ran, obeyed, caught, result,
          routes, log_notifier, offered, delegated, edges, config, visit,
          router_agent, refining>>

callerVars == <<regs, pending, state2>>
graphVars  == <<is_initialized, start_node, execution_plan>>
loopVars   == <<pc, cur, limit, steps, ran, obeyed, caught>>
invokeVars == <<state, loopVars>>
routerVars == <<routes, log_notifier, offered, delegated>>
retryVars  == <<edges, config, visit>>
chatVars   == <<router_agent>>
refineVars == <<refining>>

\* ------------------------------------------------------- node wrappers
\* AloeEdgeData as wrap_edge builds it.
EdgeData(name, target, interrupt) ==
    [name |-> name, target |-> target, interrupt |-> interrupt]

\* AloeNodeWrapper.__init__: no node data yet, empty edge map.
NewWrapper == [init |-> FALSE, is_entry |-> FALSE, edge_map |-> <<>>]

\* dict keys of an edge map (a dict in declaration order).
EdgeKeys(em) == {em[k].name : k \in 1..Len(em)}

\* edge_map[key] for a key that is present.
EdgeAt(em, key) == em[CHOOSE k \in 1..Len(em) : em[k].name = key]

\* wrap_edge: edge_name = name or target.
EdgeName(name, target) == IF name = "" THEN target ELSE name

\* A test that looks for the target among the names.
WrapEdgeRejectsTarget(w, target, name) == target \in EdgeKeys(w.edge_map)

\* wrap_edge raises TypeError when the name is already in the edge map.
WrapEdgeRejects(w, target, name) == EdgeName(name, target) \in EdgeKeys(w.edge_map)

\* wrap_edge on a wrapper that accepts the edge.
WrapEdgeOn(w, target, name, interrupt) ==
    [w EXCEPT !.edge_map =
        Append(@, EdgeData(EdgeName(name, target), target, interrupt))]

\* wrap_node on a wrapper not yet initialised.
WrapNodeOn(w, is_entry) == [w EXCEPT !.init = TRUE, !.is_entry = is_entry]

\* nodes[name] = wrapper
Put(dict, name, w) ==
    [m \in DOMAIN dict \cup {name} |-> IF m = name THEN w ELSE dict[m]]

\* number of edges declared so far
RECURSIVE DeclaredIn(_, _)
DeclaredIn(dict, names) ==
    IF names = {} THEN 0
    ELSE LET n == CHOOSE m \in names : TRUE
         IN  Len(dict[n].edge_map) + DeclaredIn(dict, names \ {n})
Declared(dict) == DeclaredIn(dict, DOMAIN dict)

\* ------------------------------------------------------------- results
\* What a call gave its caller: status "returned" or "raised" (or "running"
\* while invoke is in its loop), the exception err, the plan compile
\* returned; for invoke also its recursion_limit, the value of steps it ended
\* with, the node bodies it called in order, and whether every body returned
\* normally with __EDGE__ naming an edge declared on its node.
\* resume is the interrupt marker invoke found on entry ("" for a fresh run).
\* For compile, preflight is what self.preflight() returned.  For invoke,
\* prev is the value of __EDGE__ it found on entry (kept while it runs), and
\* caught tells whether the loop caught an exception of the body called in
\* its last pass.
Call(op, inst, status, err, plan, L, n, bodies, ok, marker) ==
    [op |-> op, inst |-> inst, status |-> status, err |-> err, plan |-> plan,
     limit |-> L, steps |-> n, ran |-> bodies, obeyed |-> ok, resume |-> marker,
     preflight |-> TRUE, prev |-> "", caught |-> FALSE]

Res(op, inst, status, err, plan) ==
    Call(op, inst, status, err, plan, 0, 0, <<>>, TRUE, "")

\* What is known of a call route.invoke(route_state): the route's name, the
\* interrupt marker the child state carried on entry, the child node bodies
\* called in order, and __EDGE__ and __INTERRUPT__ of the state it returned.
Delegation(name, marker, bodies, st) ==
    [route |-> name, entered |-> marker, ran |-> bodies,
     EDGE |-> st.EDGE, INTERRUPT |-> st.INTERRUPT]

NoDelegation == [route |-> "", entered |-> "", ran |-> <<>>, EDGE |-> "", INTERRUPT |-> ""]

\* AloeGraph (first generation): no edge registered, no state object, no
\* node being run.
NoEdges  == [n \in {} |-> <<>>]
NoConfig == [current_node |-> "", desired_node |-> "", retry_message |-> "",
             complete |-> TRUE, logs_visits |-> FALSE, DEBUG_node_visits |-> <<>>]
NoVisit  == [node |-> "", retries |-> 0, attempt |-> 0, bodies |-> 0, evals |-> 0]

\* A new state object, V2AloeConfig().
NoMessage == <<>>
FreshState == [EDGE |-> "", INTERRUPT |-> "", error_message |-> NoMessage]

\* self.state is None.
NoneState == [EDGE |-> "None", INTERRUPT |-> "None", error_message |-> NoMessage]

\* No decorator waits to be applied.
NoDecorator ==
    [kind |-> "none", inst |-> NoInst, name |-> "", is_entry |-> FALSE,
     target |-> "", interrupt |-> FALSE]

\* No ChatAgent, hence no router held by one.
NoRouter == [is_initialized |-> FALSE, state |-> <<>>]

\* No call of apply_refinements.
NoRefining == [returned |-> FALSE]

\* ---------------------------------------------------------------- Init
Init ==
    /\ phase = "class_body"
    /\ nodes = [n \in {} |-> NewWrapper]
    /\ regs = 0
    /\ pending = NoDecorator
    /\ state2 = FreshState
    /\ is_initialized = [i \in Inst |-> FALSE]
    /\ start_node = [i \in Inst |-> NoNode]
    /\ execution_plan = [i \in Inst |-> NoPlan]
    /\ state = FreshState
    /\ pc = "idle"
    /\ cur = NoInst
    /\ limit = 0
    /\ steps = 0
    /\ ran = <<>>
    /\ obeyed = TRUE
    /\ caught = FALSE
    /\ result = Res("none", NoInst, "returned", "", NoPlan)
    /\ routes = <<>>
    /\ log_notifier = FALSE
    /\ offered = <<>>
    /\ delegated = NoDelegation
    /\ edges = NoEdges
    /\ config = NoConfig
    /\ visit = NoVisit
    /\ router_agent = NoRouter
    /\ refining = NoRefining

\* ------------------------------------------------- the class body
\* @AloeEdge(target, name, interrupt) applied to function fn (wrap_edge).
\* A TypeError raised by a decorator ends the class statement: no class.
DeclareEdge(fn, target, name, interrupt) ==
    /\ phase = "class_body"
    /\ LET w == IF fn \in DOMAIN nodes THEN nodes[fn] ELSE NewWrapper IN
       /\ Declared(nodes) < MaxEdges
       /\ IF WrapEdgeRejects(w, target, name)
          THEN /\ phase' = "aborted"
               /\ nodes' = nodes
               /\ result' = Res("wrap_edge", NoInst, "raised", "TypeError", NoPlan)
          ELSE /\ phase' = phase
               /\ nodes' = Put(nodes, fn, WrapEdgeOn(w, target, name, interrupt))
               /\ result' = Res("wrap_edge", NoInst, "returned", "", NoPlan)
    /\ UNCHANGED <<callerVars, graphVars, invokeVars, routerVars, retryVars, chatVars, refineVars>>

\* @AloeNode(is_entry) applied to function fn (wrap_node); the node is named
\* after the function.
DeclareNode(fn, is_entry) ==
    /\ phase = "class_body"
    /\ LET w == IF fn \in DOMAIN nodes THEN nodes[fn] ELSE NewWrapper IN
       IF w.init
       THEN /\ phase' = "aborted"
            /\ nodes' = nodes
            /\ result' = Res("wrap_node", NoInst, "raised", "TypeError", NoPlan)
       ELSE /\ phase' = phase
            /\ nodes' = Put(nodes, fn, WrapNodeOn(w, is_entry))
            /\ result' = Res("wrap_node", NoInst, "returned", "", NoPlan)
    /\ UNCHANGED <<callerVars, graphVars, invokeVars, routerVars, retryVars, chatVars, refineVars>>

\* The dict __init_subclass__ built when V2AloeGraph itself was defined: it
\* holds no wrapper.
BaseNodes == [n \in {} |-> NewWrapper]

\* self.nodes once wrapped_init of the class has run, for the node map
\* declared that __init_subclass__ collected.  wrapped_init binds self.nodes
\* to the class's dict and then calls original_init = cls.__init__.  A class
\* with an __init__ of its own (own_init, as RouterAgent and ChatAgent have
\* one, which does not call V2AloeGraph.__init__) keeps that dict.  A class
\* without one inherits the wrapped_init of V2AloeGraph as original_init,
\* which binds self.nodes to the dict of V2AloeGraph.
NodesAfterInit(declared, own_init) == IF own_init THEN declared ELSE BaseNodes

\* End of the class statement: __init_subclass__ collects the wrappers into
\* the node map, and the instances are constructed (wrapped_init).  Every
\* decorated function carries @AloeNode.
DefineClass(own_init) ==
    /\ phase = "class_body"
    /\ \A n \in DOMAIN nodes : nodes[n].init
    /\ phase' = "defined"
    /\ nodes' = NodesAfterInit(nodes, own_init)
    /\ is_initialized' = [i \in Inst |-> FALSE]
    /\ result' = Res("class", NoInst, "returned", "", NoPlan)
    /\ UNCHANGED <<callerVars, start_node, execution_plan, invokeVars, routerVars, retryVars, chatVars, refineVars>>

\* -------------------------------------- registration through an instance
\* self.nodes of instance i: wrapped_init binds every instance to the one
\* dict that __init_subclass__ built for the class.
NodesOf(i) == nodes

\* self.state of instance i.
StateOf(i) == IF i = "g2" THEN state2 ELSE state

\* self.state = st in instance i.
SetStateOf(i, st) ==
    IF i = "g2" THEN state2' = st /\ state' = state
                ELSE state' = st /\ state2' = state2

\* What a caller hands to a decorator as fn: a plain function, a function
\* that went through wrap_edge before (a wrapper that carries an edge and is
\* no node yet), or the wrapper that dict holds under the name at.
PlainFn == [at |-> "", w |-> NewWrapper]
Functions(dict) ==
    {PlainFn}
        \cup {[at |-> "", w |-> WrapEdgeOn(NewWrapper, t, "", FALSE)] : t \in Targets}
        \cup {[at |-> n, w |-> dict[n]] : n \in DOMAIN dict}

\* g.AloeNode(name, is_entry): resets the instance's flag and returns the
\* decorator.
AloeNode(i, name, is_entry) ==
    /\ phase = "defined"
    /\ pc = "idle"
    /\ regs < MaxRegs
    /\ regs' = regs + 1
    /\ is_initialized' = [is_initialized EXCEPT ![i] = FALSE]
    /\ pending' = [NoDecorator EXCEPT !.kind = "node", !.inst = i, !.name = name,
                                      !.is_entry = is_entry]
    /\ result' = Res("AloeNode", i, "returned", "", NoPlan)
    /\ UNCHANGED <<phase, nodes, state2, start_node, execution_plan, invokeVars, routerVars, retryVars, chatVars, refineVars>>

\* The decorator g.AloeNode(...) returned, applied to fn: wrap_node, which
\* raises TypeError on a wrapper that is a node already and keeps the edges
\* fn carries, then self.nodes[name] = wrapper.
AloeNodeDecorator(fn) ==
    /\ pending.kind = "node"
    /\ pc = "idle"
    /\ pending' = NoDecorator
    /\ IF fn.w.init
       THEN /\ nodes' = nodes
            /\ result' = Res("wrap_node", pending.inst, "raised", "TypeError", NoPlan)
       ELSE /\ nodes' = Put(nodes, pending.name, WrapNodeOn(fn.w, pending.is_entry))
            /\ result' = Res("wrap_node", pending.inst, "returned", "", NoPlan)
    /\ UNCHANGED <<phase, regs, state2, graphVars, invokeVars, routerVars, retryVars, chatVars, refineVars>>

\* g.AloeEdge(target, name, interrupt): resets the instance's flag and
\* returns the decorator.
AloeEdge(i, target, name, interrupt) ==
    /\ phase = "defined"
    /\ pc = "idle"
    /\ regs < MaxRegs
    /\ regs' = regs + 1
    /\ is_initialized' = [is_initialized EXCEPT ![i] = FALSE]
    /\ pending' = [NoDecorator EXCEPT !.kind = "edge", !.inst = i, !.name = name,
                                      !.target = target, !.interrupt = interrupt]
    /\ result' = Res("AloeEdge", i, "returned", "", NoPlan)
    /\ UNCHANGED <<phase, nodes, state2, start_node, execution_plan, invokeVars, routerVars, retryVars, chatVars, refineVars>>

\* The decorator g.AloeEdge(...) returned, applied to fn: wrap_edge.  On a
\* wrapper taken from self.nodes the edge is added to the wrapper every
\* instance runs; on a function the caller gets a new wrapper.
AloeEdgeDecorator(fn) ==
    /\ pending.kind = "edge"
    /\ pc = "idle"
    /\ pending' = NoDecorator
    /\ IF WrapEdgeRejects(fn.w, pending.target, pending.name)
       THEN /\ nodes' = nodes
            /\ result' = Res("wrap_edge", pending.inst, "raised", "TypeError", NoPlan)
       ELSE /\ nodes' = IF fn.at = "" THEN nodes
                        ELSE Put(nodes, fn.at,
                                 WrapEdgeOn(fn.w, pending.target, pending.name,
                                            pending.interrupt))
            /\ result' = Res("wrap_edge", pending.inst, "returned", "", NoPlan)
    /\ UNCHANGED <<phase, regs, state2, graphVars, invokeVars, routerVars, retryVars, chatVars, refineVars>>

\* g.set_state(st): st is a new state object, or None.
SetState(i, st) ==
    /\ phase = "defined"
    /\ pc = "idle"
    /\ SetStateOf(i, st)
    /\ result' = Res("set_state", i, "returned", "", NoPlan)
    /\ UNCHANGED <<phase, nodes, regs, pending, graphVars, loopVars, routerVars, retryVars, chatVars, refineVars>>

\* ------------------------------------------------------------- compile
\* A check that looks at the first edge of each node only.
DanglingFirstEdge(dict) ==
    \E n \in DOMAIN dict :
        /\ Len(dict[n].edge_map) > 0
        /\ dict[n].edge_map[1].target \notin DOMAIN dict
        /\ dict[n].edge_map[1].target # END

\* Some edge's target is neither a key of self.nodes nor END.
Dangling(dict) ==
    \E n \in DOMAIN dict : \E k \in 1..Len(dict[n].edge_map) :
        /\ dict[n].edge_map[k].target \notin DOMAIN dict
        /\ dict[n].edge_map[k].target # END

\* start_nodes: the names of the nodes flagged is_entry.
StartNodes(dict) == {n \in DOMAIN dict : dict[n].is_entry}

\* A check that refuses a single start node too (>= 1 for > 1).
CompileErrorOffByOne(dict) ==
    IF Dangling(dict) THEN "target not found in nodes"
    ELSE IF StartNodes(dict) = {} THEN "No start node defined"
    ELSE IF Cardinality(StartNodes(dict)) >= 1 THEN "More than one start node defined"
    ELSE ""

\* A check that takes the first of several start nodes.
CompileErrorFirstEntry(dict) ==
    IF Dangling(dict) THEN "target not found in nodes"
    ELSE IF StartNodes(dict) = {} THEN "No start node defined"
    ELSE ""

\* The ValueError compile raises on this node map, "" when it raises none.
CompileError(dict) ==
    IF Dangling(dict) THEN "target not found in nodes"
    ELSE IF StartNodes(dict) = {} THEN "No start node defined"
    ELSE IF Cardinality(StartNodes(dict)) > 1 THEN "More than one start node defined"
    ELSE ""

\* plan[node_name] = {"func": node_name, "targets": [edge targets in order]}
Plan(dict) ==
    [n \in DOMAIN dict |->
        [func |-> n,
         targets |-> [k \in 1..Len(dict[n].edge_map) |-> dict[n].edge_map[k].target]]]

\* _is_initialized after compile() ran into error err ("" for none).
FlagAfterCompile(flag, err) == IF err = "" THEN TRUE ELSE flag

\* What a preflight() overridden in a subclass may return.
PreflightReturns == BOOLEAN

\* "if not self.preflight(): AloeGraphCompileError(...)": the exception is
\* constructed and dropped, so compile raises nothing here ("").
PreflightError(passes) == ""

\* The state argument of compile and invoke: none (<<>>), or a new state
\* object.
StateArgs == {<<>>, <<FreshState>>}

\* "if state: self.state = state"
GivenState(i, given) == IF given = <<>> THEN StateOf(i) ELSE given[1]

\* g.compile(state) on a graph whose preflight() returns passes.  The state
\* is replaced before anything is checked.
CompileWith(i, passes, given) ==
    /\ phase = "defined"
    /\ pc = "idle"
    /\ SetStateOf(i, GivenState(i, given))
    /\ LET err == IF PreflightError(passes) # "" THEN PreflightError(passes)
                  ELSE CompileError(nodes)
       IN
       /\ is_initialized' = [is_initialized EXCEPT ![i] = FlagAfterCompile(@, err)]
       /\ IF err # ""
          THEN /\ result' = [Res("compile", i, "raised", err, NoPlan)
                                EXCEPT !.preflight = passes]
               /\ UNCHANGED <<start_node, execution_plan>>
          ELSE /\ start_node' =
                     [start_node EXCEPT ![i] = CHOOSE n \in StartNodes(nodes) : TRUE]
               /\ execution_plan' = [execution_plan EXCEPT ![i] = Plan(nodes)]
               /\ result' = [Res("compile", i, "returned", "", Plan(nodes))
                                EXCEPT !.preflight = passes]
    /\ UNCHANGED <<phase, nodes, regs, pending, loopVars, routerVars, retryVars, chatVars, refineVars>>

\* g.compile(state) on the base class (preflight returns True).
Compile(i, given) == CompileWith(i, TRUE, given)

\* -------------------------------------------------------------- invoke
LimitMessage(L) == <<"Recursion limit", L, "reached without hitting END">>

\* V2AloeConfig._enter and _exit.
Enter(st) == IF st.INTERRUPT = "" THEN [st EXCEPT !.error_message = NoMessage] ELSE st
Exit(st) == st

\* An invoke that does not look at _is_initialized.
NotCompiledSkipped(i) == FALSE

\* The guard of invoke: raise unless _is_initialized.
NotCompiled(i) == ~is_initialized[i]

\* A start that ignores the interrupt marker.
BeginAtEntry(st, start) == [st EXCEPT !.EDGE = start, !.INTERRUPT = ""]

\* A start that goes on from where __EDGE__ was left by an earlier run.
BeginWhereLeft(st, start) ==
    IF st.INTERRUPT # ""
    THEN [st EXCEPT !.EDGE = st.INTERRUPT, !.INTERRUPT = ""]
    ELSE IF st.EDGE = "" THEN [st EXCEPT !.EDGE = start] ELSE st

\* Where the loop starts: the interrupt marker if set (and cleared), else
\* the start node.
Begin(st, start) ==
    IF st.INTERRUPT # ""
    THEN [st EXCEPT !.EDGE = st.INTERRUPT, !.INTERRUPT = ""]
    ELSE [st EXCEPT !.EDGE = start]

\* The while condition.
LoopCond(st) == st.EDGE # END /\ st.INTERRUPT = ""

\* "finally: self.state._exit(); return self.state": what the caller of
\* invoke sees when the try block ended on state st with exception exc (""
\* for none).  With self.state None the finally block raises itself.
Finally(st, exc) == IF st = NoneState THEN "raised" ELSE "returned"

\* The exception invoke ends with, raised or dropped by the return.
FinallyError(st, exc) == IF st = NoneState THEN "AttributeError" ELSE exc

\* The exceptions a body may raise that are no Exception: "except Exception"
\* does not catch them.
BaseExceptions == {"KeyboardInterrupt", "SystemExit", "GeneratorExit"}

\* What a node body may do: return the state with __EDGE__ set to some name,
\* return None, or raise exc (an Exception, or one of the others), with the
\* state untouched (edge "") or after it has set __EDGE__.
BodyOutcomes ==
    [raises : {FALSE}, exc : {""}, edge : EdgeNames, none : {FALSE}]
        \cup [raises : {FALSE}, exc : {""}, edge : {""}, none : {TRUE}]
        \cup [raises : {TRUE}, exc : {"Exception"} \cup BaseExceptions,
               edge : EdgeNames \cup {""}, none : {FALSE}]

\* The body raised and the except clause of the loop does not catch it: the
\* exception leaves the try block of invoke.
Escapes(out) == out.raises /\ out.exc \in BaseExceptions

\* self.state after "try: self.state = node_fn(self, self.state) except".
AfterBody(st, out) ==
    IF out.none THEN NoneState
    ELSE IF out.edge = "" THEN st
    ELSE [st EXCEPT !.EDGE = out.edge]

\* A marker that records the edge's target instead of its name.
MarkTarget(st, e) == [st EXCEPT !.INTERRUPT = IF e.interrupt THEN e.target ELSE ""]

\* __INTERRUPT__ after the edge e named by __EDGE__ was looked up.
Mark(st, e) == [st EXCEPT !.INTERRUPT = IF e.interrupt THEN st.EDGE ELSE ""]

\* A test that allows one step more.
OverLimitLate(n, L) == n > L + 1

\* steps > recursion_limit
OverLimit(n, L) == n > L

\* Leaving invoke through the finally block with exception exc pending,
\* after n increments of steps and the calls of the node bodies in bodies,
\* the last of which raised an exception the loop caught, or not (thrown).
Finish(st, exc, n, bodies, ok, thrown) ==
    /\ SetStateOf(cur, IF st = NoneState THEN st ELSE Exit(st))
    /\ pc' = "idle"
    /\ result' = [Call("invoke", cur, Finally(st, exc), FinallyError(st, exc), NoPlan,
                       limit, n, bodies, ok, result.resume)
                     EXCEPT !.caught = thrown]
    /\ caught' = FALSE
    /\ cur' = NoInst
    /\ limit' = 0
    /\ steps' = 0
    /\ ran' = <<>>
    /\ obeyed' = TRUE

\* g.invoke(state, recursion_limit = L), up to the while loop.  The flag is
\* tested first; then the state argument replaces self.state, and _enter
\* raises AttributeError when self.state is None.
InvokeStart(i, L, given) ==
    /\ phase = "defined"
    /\ pc = "idle"
    /\ IF NotCompiled(i)
       THEN /\ result' = Call("invoke", i, "raised", "Graph has not been compiled",
                              NoPlan, L, 0, <<>>, TRUE, "")
            /\ UNCHANGED <<invokeVars, state2>>
       ELSE LET st == GivenState(i, given) IN
            IF st = NoneState
            THEN /\ result' = Call("invoke", i, "raised", "AttributeError",
                                   NoPlan, L, 0, <<>>, TRUE, "")
                 /\ UNCHANGED <<invokeVars, state2>>
            ELSE /\ SetStateOf(i, Begin(Enter(st), start_node[i]))
                 /\ pc' = "loop"
                 /\ cur' = i
                 /\ limit' = L
                 /\ steps' = 0
                 /\ ran' = <<>>
                 /\ obeyed' = TRUE
                 /\ caught' = FALSE
                 /\ result' = [Call("invoke", i, "running", "", NoPlan, L, 0, <<>>, TRUE,
                                    st.INTERRUPT)
                                  EXCEPT !.prev = st.EDGE]
    /\ UNCHANGED <<phase, nodes, regs, pending, graphVars, routerVars, retryVars, chatVars, refineVars>>

\* One pass through the body of the while loop.  An exception of the body
\* that is no Exception ends invoke through the finally block, the state as
\* the body left it.  After a body that returned None the next read of
\* self.state raises AttributeError.
InvokeStepOn(outcomes) ==
    /\ pc = "loop"
    /\ LoopCond(StateOf(cur))
    /\ LET st == StateOf(cur) IN
       IF st.EDGE \notin DOMAIN nodes
       THEN Finish(st, "KeyError", steps, ran, obeyed, FALSE)
       ELSE \E out \in outcomes :
            LET w  == nodes[st.EDGE]
                s1 == AfterBody(st, out)
                r1 == Append(ran, st.EDGE)
                o1 == (obeyed /\ ~out.raises /\ s1.EDGE \in EdgeKeys(w.edge_map))
            IN  IF Escapes(out)
                THEN Finish(s1, out.exc, steps, r1, o1, FALSE)
                ELSE IF s1 = NoneState
                THEN Finish(s1, "AttributeError", steps, r1, o1, FALSE)
                ELSE IF s1.EDGE \notin EdgeKeys(w.edge_map)
                THEN Finish(s1, "KeyError", steps, r1, o1, out.raises)
                ELSE LET s2 == Mark(s1, EdgeAt(w.edge_map, s1.EDGE)) IN
                     IF OverLimit(steps + 1, limit)
                     THEN Finish([s2 EXCEPT !.error_message = LimitMessage(limit)],
                                 "RuntimeError", steps + 1, r1, o1, out.raises)
                     ELSE /\ SetStateOf(cur, s2)
                          /\ steps' = steps + 1
                          /\ ran' = r1
                          /\ obeyed' = o1
                          /\ caught' = out.raises
                          /\ UNCHANGED <<pc, cur, limit, result>>
    /\ UNCHANGED <<phase, nodes, regs, pending, graphVars, routerVars, retryVars, chatVars, refineVars>>

InvokeStep == InvokeStepOn(BodyOutcomes)

\* The while condition is false: finally, return.
InvokeReturn ==
    /\ pc = "loop"
    /\ ~LoopCond(StateOf(cur))
    /\ Finish(StateOf(cur), "", steps, ran, obeyed, caught)
    /\ UNCHANGED <<phase, nodes, regs, pending, graphVars, routerVars, retryVars, chatVars, refineVars>>

\* ------------------------------------------------------ specifications
\* Bodies that set __EDGE__ to END and return.
BodiesThatEnd == {out \in BodyOutcomes : ~out.none /\ ~out.raises /\ out.edge = END}

\* The registry life cycle: any structure of plainly named edges, both
\* instances, decorators made through an instance after the class exists and
\* applied at any later moment, each instance on its own state.  The node
\* bodies end the run.
NextRegistry ==
    \/ \E fn \in NodeNames, t \in Targets : DeclareEdge(fn, t, "", FALSE)
    \/ \E fn \in NodeNames, e \in BOOLEAN : DeclareNode(fn, e)
    \/ \E own_init \in BOOLEAN : DefineClass(own_init)
    \/ \E i \in Inst, n \in NodeNames, e \in BOOLEAN : AloeNode(i, n, e)
    \/ \E fn \in Functions(nodes) : AloeNodeDecorator(fn)
    \/ \E i \in Inst, t \in Targets : AloeEdge(i, t, "", FALSE)
    \/ \E fn \in Functions(nodes) : AloeEdgeDecorator(fn)
    \/ \E i \in Inst, st \in {FreshState, NoneState} : SetState(i, st)
    \/ \E i \in Inst, given \in StateArgs : Compile(i, given)
    \/ \E i \in Inst, given \in StateArgs : InvokeStart(i, MaxLimit, given)
    \/ InvokeStepOn(BodiesThatEnd)
    \/ InvokeReturn

SpecRegistry == Init /\ [][NextRegistry]_vars

\* The engine: edges of every kind (named or not, interrupt or not), one
\* instance of the class as declared, node bodies of every kind.
NextEngine ==
    \/ \E fn \in NodeNames, t \in Targets, nm \in {"", Alias}, intr \in BOOLEAN :
          DeclareEdge(fn, t, nm, intr)
    \/ \E fn \in NodeNames, e \in BOOLEAN : DeclareNode(fn, e)
    \/ \E own_init \in BOOLEAN : DefineClass(own_init)
    \/ \E st \in {FreshState, NoneState} : SetState("g1", st)
    \/ \E passes \in PreflightReturns, given \in StateArgs : CompileWith("g1", passes, given)
    \/ \E L \in 1..MaxLimit, given \in StateArgs : InvokeStart("g1", L, given)
    \/ InvokeStep
    \/ InvokeReturn

SpecEngine == Init /\ [][NextEngine]_vars

\* Declaration and compile: edges of every kind declared in the class body,
\* one instance, set_state, and compile with or without a state, for either
\* return of the preflight hook.
NextCompile ==
    \/ \E fn \in NodeNames, t \in Targets, nm \in {"", Alias}, intr \in BOOLEAN :
          DeclareEdge(fn, t, nm, intr)
    \/ \E fn \in NodeNames, e \in BOOLEAN : DeclareNode(fn, e)
    \/ \E own_init \in BOOLEAN : DefineClass(own_init)
    \/ \E st \in {FreshState, NoneState} : SetState("g1", st)
    \/ \E passes \in PreflightReturns, given \in StateArgs : CompileWith("g1", passes, given)

SpecCompile == Init /\ [][NextCompile]_vars

\* The decorators: edges of every kind declared in the class body, then
\* nodes and edges (named or not) added through the instance, in any order.
NextDecorators ==
    \/ \E fn \in NodeNames, t \in Targets, nm \in {"", Alias}, intr \in BOOLEAN :
          DeclareEdge(fn, t, nm, intr)
    \/ \E fn \in NodeNames, e \in BOOLEAN : DeclareNode(fn, e)
    \/ \E own_init \in BOOLEAN : DefineClass(own_init)
    \/ \E n \in NodeNames, e \in BOOLEAN : AloeNode("g1", n, e)
    \/ \E fn \in Functions(nodes) : AloeNodeDecorator(fn)
    \/ \E t \in Targets, nm \in {"", Alias} : AloeEdge("g1", t, nm, FALSE)
    \/ \E fn \in Functions(nodes) : AloeEdgeDecorator(fn)

SpecDecorators == Init /\ [][NextDecorators]_vars

\* The life cycle of one instance: plainly named edges, decorators made
\* through the instance and applied at any later moment, set_state, compile
\* and invoke with or without a state.  The node bodies end the run.
NextLifecycle ==
    \/ \E fn \in NodeNames, t \in Targets : DeclareEdge(fn, t, "", FALSE)
    \/ \E fn \in NodeNames, e \in BOOLEAN : DeclareNode(fn, e)
    \/ \E own_init \in BOOLEAN : DefineClass(own_init)
    \/ \E n \in NodeNames, e \in BOOLEAN : AloeNode("g1", n, e)
    \/ \E fn \in Functions(nodes) : AloeNodeDecorator(fn)
    \/ \E t \in Targets : AloeEdge("g1", t, "", FALSE)
    \/ \E fn \in Functions(nodes) : AloeEdgeDecorator(fn)
    \/ \E st \in {FreshState, NoneState} : SetState("g1", st)
    \/ \E given \in StateArgs : Compile("g1", given)
    \/ \E given \in StateArgs : InvokeStart("g1", MaxLimit, given)
    \/ InvokeStepOn(BodiesThatEnd)
    \/ InvokeReturn

SpecLifecycle == Init /\ [][NextLifecycle]_vars

\* ============================================================ RouterAgent
\* RouterAgent is a graph class with two nodes; the router is instance g1 of
\* it.  A route is a child graph registered under a name.  What the router
\* reads of a route: its graph, isAvailable(parent_state), what its
\* setRouteState returns (the child state it was given, or the parent state
\* as in the example of AloeRoute), and whether its getRouteState hands out
\* the state the child was last run on or a new one each time.  The parent
\* state is that of the graph whose node body calls the router (ChatAgent),
\* so its interrupt marker is empty.  The message fields are left out.
Router     == "g1"
RouteNames == {"A", "B"}
Graphs     == {"plain", "pausing", "aliased", "broken"}
Merges     == {"child", "parent"}

\* recursion_limit of invoke when the caller passes none
DefaultRecursionLimit == 10

\* The class body of RouterAgent: decorators apply bottom-up.
RouterNodes ==
    [n \in {"decide_can_route_request", "invoke_route"} |->
        IF n = "decide_can_route_request"
        THEN WrapNodeOn(WrapEdgeOn(WrapEdgeOn(NewWrapper, END, "", FALSE),
                                   "invoke_route", "", FALSE), TRUE)
        ELSE WrapNodeOn(WrapEdgeOn(WrapEdgeOn(NewWrapper, END, "", FALSE),
                                   "invoke_route", "", TRUE), FALSE)]

\* The graphs of the routes: one node; a node suspending before a second
\* one (as EchoAgent does), the interrupt edge named after its target or
\* under a name of its own; and a graph without entry node.
ChildNodes(graph) ==
    [n \in (IF graph \in {"pausing", "aliased"} THEN {"c1", "c2"} ELSE {"c1"}) |->
        IF n = "c2" \/ graph \in {"plain", "broken"}
        THEN WrapNodeOn(WrapEdgeOn(NewWrapper, END, "", FALSE),
                        n = "c1" /\ graph # "broken")
        ELSE WrapNodeOn(WrapEdgeOn(NewWrapper, "c2",
                                   IF graph = "aliased" THEN Alias ELSE "", TRUE), TRUE)]

\* A new state object of the router (one of a route is FreshState).
RouterAgentState ==
    [EDGE |-> "", INTERRUPT |-> "", error_message |-> NoMessage,
     ROUTE |-> "", RESUME |-> ""]

\* The state object of the graph that calls the router.
ParentState == FreshState

\* The route objects a caller may construct: the route that suspends once,
\* is available, has setRouteState return the child state and getRouteState
\* hand out the state it was last run on; and the routes that differ from
\* it in one respect.
BaseRoute ==
    [graph |-> "pausing", available |-> TRUE, merges |-> "child", persists |-> TRUE]

RouteAgents ==
    {a \in [graph : Graphs, available : BOOLEAN, merges : Merges, persists : BOOLEAN] :
        Cardinality({f \in DOMAIN BaseRoute : a[f] # BaseRoute[f]}) <= 1}

\* The route as addRoute stores it: not compiled, on a new state.

NewRoute(agent, routeName) ==
    [name |-> routeName, graph |-> agent.graph, available |-> agent.available,
     merges |-> agent.merges, persists |-> agent.persists,
     is_initialized |-> FALSE, state |-> FreshState]

\* route_name in self.routes, and self.routes[route_name]
Registered(rs, name) == \E k \in 1..Len(rs) : rs[k].name = name
RouteIndex(rs, name) == CHOOSE k \in 1..Len(rs) : rs[k].name = name
RouteAt(rs, name)    == rs[RouteIndex(rs, name)]

\* A registry that keeps the earlier route as well.
PutRouteAppends(rs, name, r) == Append(rs, r)

\* self.routes[routeName] = routeAgent
PutRoute(rs, name, r) ==
    IF Registered(rs, name) THEN [rs EXCEPT ![RouteIndex(rs, name)] = r]
    ELSE Append(rs, r)

\* r.isAvailable(parent_state)
IsAvailable(r) == r.available

\* A listing that does not ask isAvailable.
AvailableRoutesAll(rs) == [k \in 1..Len(rs) |-> rs[k].name]

\* getAvailableRoute(parent_state) without a route name: the routes whose
\* isAvailable is true (by name).
AvailableRoutes(rs) ==
    LET sel == SelectSeq(rs, IsAvailable) IN [k \in 1..Len(sel) |-> sel[k].name]

\* router = RouterAgent(initial_state, response_generator)
InitRouter ==
    /\ phase = "defined"
    /\ nodes = RouterNodes
    /\ regs = 0
    /\ pending = NoDecorator
    /\ state2 = FreshState
    /\ is_initialized = [i \in Inst |-> FALSE]
    /\ start_node = [i \in Inst |-> NoNode]
    /\ execution_plan = [i \in Inst |-> NoPlan]
    /\ state = RouterAgentState
    /\ pc = "idle"
    /\ cur = NoInst
    /\ limit = 0
    /\ steps = 0
    /\ ran = <<>>
    /\ obeyed = TRUE
    /\ caught = FALSE
    /\ result = Res("none", NoInst, "returned", "", NoPlan)
    /\ routes = <<>>
    /\ log_notifier = FALSE
    /\ offered = <<>>
    /\ delegated = NoDelegation
    /\ edges = NoEdges
    /\ config = NoConfig
    /\ visit = NoVisit
    /\ router_agent = NoRouter
    /\ refining = NoRefining

\* router.addRoute(routeAgent, routeName) with a newly constructed route.
AddRoute(agent, routeName) ==
    /\ phase = "defined"
    /\ pc = "idle"
    /\ is_initialized' = [is_initialized EXCEPT ![Router] = FALSE]
    /\ routes' = PutRoute(routes, routeName, NewRoute(agent, routeName))
    /\ result' = Res("addRoute", Router, "returned", "", NoPlan)
    /\ UNCHANGED <<phase, nodes, callerVars, start_node, execution_plan, invokeVars,
                   log_notifier, offered, delegated, retryVars, chatVars, refineVars>>

\* router.getAvailableRoute(parent_state)
GetAvailableRoute ==
    /\ phase = "defined"
    /\ pc = "idle"
    /\ offered' = AvailableRoutes(routes)
    /\ result' = Res("getAvailableRoute", Router, "returned", "", NoPlan)
    /\ UNCHANGED <<phase, nodes, callerVars, graphVars, invokeVars, routes, log_notifier,
                   delegated, retryVars, chatVars, refineVars>>

\* RouterAgent.preflight: in dict order, each route not yet compiled is
\* compiled with the router's log_notifier; reading that attribute fails
\* when the router has none, and a route's compile error leaves preflight.
RECURSIVE PreflightFrom(_, _, _)
PreflightFrom(rs, k, notifier) ==
    IF k > Len(rs) THEN [routes |-> rs, err |-> ""]
    ELSE IF rs[k].is_initialized THEN PreflightFrom(rs, k + 1, notifier)
    ELSE IF ~notifier THEN [routes |-> rs, err |-> "AttributeError"]
    ELSE LET e == CompileError(ChildNodes(rs[k].graph)) IN
         IF e # "" THEN [routes |-> rs, err |-> e]
         ELSE PreflightFrom(
                [rs EXCEPT ![k].is_initialized = FlagAfterCompile(@, e)],
                k + 1, notifier)

\* A preflight that compiles no route.
PreflightSkips(rs, notifier) == [routes |-> rs, err |-> ""]

\* RouterAgent.preflight
Preflight(rs, notifier) == PreflightFrom(rs, 1, notifier)

\* router.compile(), or router.compile(log_notifier=...): the notifier is
\* stored, preflight runs, then the router's own node map is checked.
RouterCompile(withNotifier) ==
    /\ phase = "defined"
    /\ pc = "idle"
    /\ LET n   == log_notifier \/ withNotifier
           pre == Preflight(routes, n)
           err == IF pre.err # "" THEN pre.err ELSE CompileError(nodes)
       IN  /\ log_notifier' = n
           /\ routes' = pre.routes
           /\ is_initialized' =
                [is_initialized EXCEPT ![Router] = FlagAfterCompile(@, err)]
           /\ IF err # ""
              THEN /\ result' = Res("compile", Router, "raised", err, NoPlan)
                   /\ UNCHANGED <<start_node, execution_plan>>
              ELSE /\ start_node' =
                         [start_node EXCEPT ![Router] = CHOOSE m \in StartNodes(nodes) : TRUE]
                   /\ execution_plan' = [execution_plan EXCEPT ![Router] = Plan(nodes)]
                   /\ result' = Res("compile", Router, "returned", "", Plan(nodes))
    /\ UNCHANGED <<phase, nodes, callerVars, invokeVars, offered, delegated, retryVars, chatVars, refineVars>>

\* ------------------------------------------------- the child's invoke
\* The body of a route's node selects the node's first edge.
ChildBody(w, st) == [st EXCEPT !.EDGE = w.edge_map[1].name]

\* The while loop of the child's invoke, n steps taken and bodies called so
\* far: the state it returns, the bodies, and the exception the finally
\* block discarded.
RECURSIVE ChildLoop(_, _, _, _, _)
ChildLoop(reg, st, n, L, bodies) ==
    IF ~LoopCond(st) THEN [state |-> Exit(st), ran |-> bodies, exc |-> ""]
    ELSE IF st.EDGE \notin DOMAIN reg
    THEN [state |-> Exit(st), ran |-> bodies, exc |-> "KeyError"]
    ELSE LET w  == reg[st.EDGE]
             s1 == ChildBody(w, st)
             r1 == Append(bodies, st.EDGE)
         IN  IF s1.EDGE \notin EdgeKeys(w.edge_map)
             THEN [state |-> Exit(s1), ran |-> r1, exc |-> "KeyError"]
             ELSE LET s2 == Mark(s1, EdgeAt(w.edge_map, s1.EDGE)) IN
                  IF OverLimit(n + 1, L)
                  THEN [state |-> Exit([s2 EXCEPT !.error_message = LimitMessage(L)]),
                        ran |-> r1, exc |-> "RuntimeError"]
                  ELSE ChildLoop(reg, s2, n + 1, L, r1)

\* route.invoke(route_state) on a compiled route.
ChildInvoke(route, st) ==
    LET reg == ChildNodes(route.graph) IN
    ChildLoop(reg, Begin(Enter(st), CHOOSE m \in StartNodes(reg) : TRUE),
              0, DefaultRecursionLimit, <<>>)

\* route.getRouteState(parent_state) and route.setRouteState(parent_state, st)
GetRouteState(route) == IF route.persists THEN route.state ELSE FreshState
SetRouteState(route, st) == IF route.merges = "child" THEN st ELSE ParentState

\* ------------------------------------------------ the router's bodies
\* What the response generator may answer: route is a name, or left out
\* (None, or the empty string).
Responses == [should_route : BOOLEAN, route : RouteNames \cup {""}]

\* Whether getAvailableRoute(parent_state, route_name) returns something
\* true: with a name, the route registered under it; without one, the list
\* of the available routes, which is true unless empty.
RouteFound(rs, route_name) ==
    IF route_name # "" THEN Registered(rs, route_name) ELSE AvailableRoutes(rs) # <<>>

\* The body of decide_can_route_request.
DecideBody(st, rs, response) ==
    IF response.should_route /\ RouteFound(rs, response.route)
    THEN [st EXCEPT !.ROUTE = response.route, !.EDGE = "invoke_route"]
    ELSE [st EXCEPT !.EDGE = END]

\* A selection that leaves __RESUME__ as it was.
TakeResumeKeeps(st, rs) ==
    IF st.RESUME # "" /\ Registered(rs, st.RESUME)
    THEN [st EXCEPT !.ROUTE = st.RESUME]
    ELSE st

\* The first lines of invoke_route: a pending __RESUME__ naming a registered
\* route selects it and is cleared.
TakeResume(st, rs) ==
    IF st.RESUME # "" /\ Registered(rs, st.RESUME)
    THEN [st EXCEPT !.ROUTE = st.RESUME, !.RESUME = ""]
    ELSE st

\* The last lines of invoke_route, route_state being what setRouteState
\* returned.
AfterRoute(st, route_state) ==
    IF route_state.INTERRUPT # ""
    THEN [st EXCEPT !.RESUME = st.ROUTE, !.EDGE = "invoke_route"]
    ELSE [st EXCEPT !.EDGE = END]

\* The rest of a pass of the loop once the body of node has left state s1
\* (raised: by raising): edge lookup, interrupt marker, step count.
Resolve(node, s1, raised) ==
    LET w  == nodes[node]
        r1 == Append(ran, node)
        o1 == (obeyed /\ ~raised /\ s1.EDGE \in EdgeKeys(w.edge_map))
    IN  IF s1.EDGE \notin EdgeKeys(w.edge_map)
        THEN Finish(s1, "KeyError", steps, r1, o1, raised)
        ELSE LET s2 == Mark(s1, EdgeAt(w.edge_map, s1.EDGE)) IN
             IF OverLimit(steps + 1, limit)
             THEN Finish([s2 EXCEPT !.error_message = LimitMessage(limit)],
                         "RuntimeError", steps + 1, r1, o1, raised)
             ELSE /\ state' = s2
                  /\ steps' = steps + 1
                  /\ ran' = r1
                  /\ obeyed' = o1
                  /\ caught' = raised
                  /\ UNCHANGED <<pc, cur, limit, result>>

\* A pass of the router's loop at node decide_can_route_request.
DecideCanRouteRequest(response) ==
    /\ pc = "loop"
    /\ LoopCond(state)
    /\ state.EDGE = "decide_can_route_request"
    /\ offered' = AvailableRoutes(routes)
    /\ Resolve("decide_can_route_request", DecideBody(state, routes, response), FALSE)
    /\ UNCHANGED <<phase, nodes, callerVars, graphVars, routes, log_notifier, delegated, retryVars, chatVars, refineVars>>

\* A pass of the router's loop at node invoke_route.  The body raises when
\* __ROUTE__ names no route (KeyError) or the route is not compiled; the
\* loop logs that and goes on with the state as the body left it.
InvokeRoute ==
    /\ pc = "loop"
    /\ LoopCond(state)
    /\ state.EDGE = "invoke_route"
    /\ LET s1 == TakeResume(state, routes) IN
       IF ~Registered(routes, s1.ROUTE) \/ ~RouteAt(routes, s1.ROUTE).is_initialized
       THEN /\ Resolve("invoke_route", s1, TRUE)
            /\ UNCHANGED <<routes, delegated>>
       ELSE LET route == RouteAt(routes, s1.ROUTE)
                given == GetRouteState(route)
                run   == ChildInvoke(route, given)
            IN  /\ routes' = [routes EXCEPT ![RouteIndex(routes, s1.ROUTE)].state = run.state]
                /\ delegated' = Delegation(s1.ROUTE, given.INTERRUPT, run.ran, run.state)
                /\ Resolve("invoke_route", AfterRoute(s1, SetRouteState(route, run.state)),
                           FALSE)
    /\ UNCHANGED <<phase, nodes, callerVars, graphVars, log_notifier, offered, retryVars, chatVars, refineVars>>

NextRouter ==
    \/ \E agent \in RouteAgents, nm \in RouteNames : AddRoute(agent, nm)
    \/ \E wn \in BOOLEAN : RouterCompile(wn)
    \/ GetAvailableRoute
    \/ \E L \in 1..MaxLimit : InvokeStart(Router, L, <<>>)
    \/ \E response \in Responses : DecideCanRouteRequest(response)
    \/ InvokeRoute
    \/ InvokeReturn

SpecRouter == InitRouter /\ [][NextRouter]_vars

\* ================================================ AloeGraph, first generation
\* The engine with completion checks and retries (aloe_graph.py).  Nodes are
\* registered through AloeGraph.AloeNode with their targets, their retry
\* budget, and transition checks that either all pass or not.  Every edge
\* carries a completion check, as the default of AloeNode provides one; the
\* check is a predicate of the state, and config.complete says whether it
\* passes on the state as the last node body left it.  A node body is
\* opaque: it may set desired_node, and leaves a state that passes the check
\* or does not.  Branch deciders are opaque: they return END or a node name.
\* invoke is split at its callbacks: entry (V1Invoke), the top of the while
\* loop up to the first call of the node (V1Top), one iteration of the retry
\* loop (V1Check), and the branch decision (V1Decide).
V1Names == {"p", "q"}
Keep    == "-"                     \* a body that leaves desired_node alone
Hint    == "hint"                  \* the message of a failed completion check

\* completion_check_retries when AloeNode is given none
DefaultRetries == 5

RetryBudgets == 0..MaxRetries \cup {DefaultRetries}

\* AloeEdge as AloeNode builds it.
V1Edge(targets, retries, open) == [targets |-> targets, retries |-> retries, open |-> open]

\* A budget taken as given.
BudgetAsGiven(retries) == retries

\* retries = edge.completion_check_retries or 1
Budget(retries) == IF retries = 0 THEN 1 ELSE retries

\* AloeConfig.get_available_transitions
AvailableTransitions(cfg, eds) ==
    IF cfg.current_node \notin DOMAIN eds THEN {}
    ELSE {t \in eds[cfg.current_node].targets : t \in DOMAIN eds /\ eds[t].open}

\* default_decider
DefaultDecider(cfg, eds) ==
    IF cfg.desired_node # "" /\ cfg.desired_node \in AvailableTransitions(cfg, eds)
    THEN cfg.desired_node
    ELSE END

\* What a branch decider may return.
BranchDecisions(cfg, eds) == {DefaultDecider(cfg, eds)} \cup V1Names \cup {END}

\* The top of the loop: a desired node that is available becomes the
\* current node.
TakeDesired(cfg, eds) ==
    IF cfg.desired_node # "" /\ cfg.desired_node \in AvailableTransitions(cfg, eds)
    THEN [cfg EXCEPT !.current_node = cfg.desired_node, !.desired_node = ""]
    ELSE cfg

\* What a node body may do.
BodyResults == [desire : V1Names \cup {Keep}, complete : BOOLEAN]

\* The wrapper of AloeNode up to the visit log: the state as it is when
\* state.DEBUG_node_visits is read.
EnterNode(cfg, name) ==
    [cfg EXCEPT !.current_node = name,
                !.desired_node = IF @ = name THEN "" ELSE @]

\* AloeConfig declares no field DEBUG_node_visits: reading it raises
\* AttributeError unless the class of the state object declares one.
VisitLogMissing(cfg) == ~cfg.logs_visits

\* node_fn(state) on a state that has the visit log: the wrapper of
\* AloeNode, then the body.
RunNode(cfg, name, out) ==
    LET c1 == [EnterNode(cfg, name) EXCEPT !.DEBUG_node_visits = Append(@, name)]
    IN  [c1 EXCEPT !.desired_node = IF out.desire = Keep THEN @ ELSE out.desire,
                   !.complete = out.complete]

\* The errors of invoke, each a tuple of the parts of its message; the empty
\* tuple for none.
NoError == <<>>
RetriesExhausted(node, retries) ==
    <<"Completion check failed for node", node, "after", retries, "retries">>
InvalidTransition(node, next) == <<"Invalid transition", node, next>>

\* graph = AloeGraph(initial_state, ...): log_notifier is None; the state
\* object starts at some node, and is an AloeConfig or of a subclass that
\* declares the list DEBUG_node_visits.
InitV1 ==
    /\ phase = "defined"
    /\ nodes = [n \in {} |-> NewWrapper]
    /\ regs = 0
    /\ pending = NoDecorator
    /\ state2 = FreshState
    /\ is_initialized = [i \in Inst |-> FALSE]
    /\ start_node = [i \in Inst |-> NoNode]
    /\ execution_plan = [i \in Inst |-> NoPlan]
    /\ state = FreshState
    /\ pc = "idle"
    /\ cur = NoInst
    /\ limit = 0
    /\ steps = 0
    /\ ran = <<>>
    /\ obeyed = TRUE
    /\ caught = FALSE
    /\ result = Res("none", NoInst, "returned", "", NoPlan)
    /\ routes = <<>>
    /\ log_notifier = FALSE
    /\ offered = <<>>
    /\ delegated = NoDelegation
    /\ edges = NoEdges
    /\ config \in {[NoConfig EXCEPT !.current_node = n, !.logs_visits = d] :
                        n \in V1Names, d \in BOOLEAN}
    /\ visit = NoVisit
    /\ router_agent = NoRouter
    /\ refining = NoRefining

outsideV1 == <<phase, nodes, callerVars, graphVars, state, cur, ran, obeyed, caught,
               routes, offered, delegated, chatVars, refineVars>>

\* @graph.AloeNode(targets, completion_check_retries=retries,
\* transition_checks=...) applied to a function not registered before.
V1AloeNode(name, targets, retries, open) ==
    /\ pc = "idle"
    /\ name \notin DOMAIN edges
    /\ edges' = Put(edges, name, V1Edge(targets, retries, open))
    /\ result' = Res("V1.AloeNode", NoInst, "returned", "", NoPlan)
    /\ UNCHANGED <<outsideV1, pc, limit, steps, log_notifier, config, visit>>

\* graph.set_log_notifier(log_notifier)
SetLogNotifier ==
    /\ pc = "idle"
    /\ ~log_notifier
    /\ log_notifier' = TRUE
    /\ result' = Res("V1.set_log_notifier", NoInst, "returned", "", NoPlan)
    /\ UNCHANGED <<outsideV1, pc, limit, steps, edges, config, visit>>

\* invoke leaves by return or by raising err.
V1Finish(cfg, status, err, n, v) ==
    /\ config' = cfg
    /\ pc' = "idle"
    /\ result' = Call("V1.invoke", NoInst, status, err, NoPlan, limit, n, <<>>, TRUE, "")
    /\ visit' = v
    /\ limit' = 0
    /\ steps' = 0

\* graph.invoke(state, recursion_limit)
V1Invoke(L) ==
    /\ pc = "idle"
    /\ Len(config.DEBUG_node_visits) <= MaxVisits
    /\ pc' = "top"
    /\ limit' = L
    /\ steps' = 0
    /\ visit' = NoVisit
    /\ result' = Call("V1.invoke", NoInst, "running", NoError, NoPlan, L, 0, <<>>, TRUE, "")
    /\ UNCHANGED <<outsideV1, log_notifier, edges, config>>

\* The while condition, and a pass of the loop up to the first call of the
\* node: the desired node is taken, the logger is called, the node is
\* looked up and run.
V1Top(out) ==
    /\ pc = "top"
    /\ IF ~(steps < limit)
       THEN V1Finish(config, "raised", LimitMessage(limit), steps, visit)
       ELSE LET c1 == TakeDesired(config, edges)
                current == c1.current_node
            IN  IF ~log_notifier
                THEN V1Finish(c1, "raised", <<"AttributeError">>, steps + 1, visit)
                ELSE IF current \notin DOMAIN edges
                THEN V1Finish(c1, "raised", <<"KeyError">>, steps + 1, visit)
                ELSE IF VisitLogMissing(c1)
                THEN V1Finish(EnterNode(c1, current), "raised", <<"AttributeError">>,
                              steps + 1, visit)
                ELSE /\ config' = RunNode(c1, current, out)
                     /\ pc' = "check"
                     /\ steps' = steps + 1
                     /\ visit' = [node |-> current,
                                  retries |-> Budget(edges[current].retries),
                                  attempt |-> 0, bodies |-> 1, evals |-> 0]
                     /\ UNCHANGED <<limit, result>>
    /\ UNCHANGED <<outsideV1, log_notifier, edges>>

\* A success branch that leaves the hint of the failed evaluation in place.
PassedCheckKeepsHint(cfg) == cfg

\* "if success: state.retry_message = ''"
PassedCheck(cfg) == [cfg EXCEPT !.retry_message = ""]

\* One iteration of "for attempt in range(retries)": the completion check is
\* evaluated; when it fails the hint is stored and the node is run again,
\* and after the last iteration the else branch raises.
V1Check(out) ==
    /\ pc = "check"
    /\ IF config.complete
       THEN /\ config' = PassedCheck(config)
            /\ pc' = "decide"
            /\ visit' = [visit EXCEPT !.evals = @ + 1]
            /\ UNCHANGED <<limit, steps, result>>
       ELSE LET c1 == RunNode([config EXCEPT !.retry_message = Hint], visit.node, out)
                v1 == [visit EXCEPT !.attempt = @ + 1, !.bodies = @ + 1, !.evals = @ + 1]
            IN  IF v1.attempt < visit.retries
                THEN /\ config' = c1
                     /\ visit' = v1
                     /\ UNCHANGED <<pc, limit, steps, result>>
                ELSE V1Finish(c1, "raised", RetriesExhausted(visit.node, visit.retries),
                              steps, v1)
    /\ UNCHANGED <<outsideV1, log_notifier, edges>>

\* The branch decider is asked: END returns, a node outside the targets
\* raises, a target becomes the current node.
V1Decide(next) ==
    /\ pc = "decide"
    /\ next \in BranchDecisions(config, edges)
    /\ IF next = END
       THEN V1Finish(config, "returned", NoError, steps, visit)
       ELSE IF next \notin edges[visit.node].targets
       THEN V1Finish(config, "raised", InvalidTransition(visit.node, next), steps, visit)
       ELSE /\ config' = [config EXCEPT !.current_node = next]
            /\ pc' = "top"
            /\ UNCHANGED <<limit, steps, result, visit>>
    /\ UNCHANGED <<outsideV1, log_notifier, edges>>

NextV1 ==
    \/ \E n \in V1Names, ts \in SUBSET V1Names, r \in RetryBudgets, o \in BOOLEAN :
          V1AloeNode(n, ts, r, o)
    \/ SetLogNotifier
    \/ \E L \in 0..MaxV1Limit : V1Invoke(L)
    \/ \E out \in BodyResults : V1Top(out)
    \/ \E out \in BodyResults : V1Check(out)
    \/ \E next \in V1Names \cup {END} : V1Decide(next)

SpecV1 == InitV1 /\ [][NextV1]_vars

\* ================================================================ ChatAgent
\* ChatAgent is a graph of the V2 engine with four nodes; the agent is
\* instance g1 of it.  It holds an intake agent, whose invoke yields the
\* decision should_route, and a router agent with its routes; the body of
\* its node invoke_route runs the whole invoke of the router.  The chat log
\* and the message fields are left out.
Chat == "g1"

\* The class body of ChatAgent: decorators apply bottom-up.
ChatNodes ==
    [n \in {"invoke_intake", "invoke_route", "chat_message", "auto_resume"} |->
        CASE n = "invoke_intake" ->
               WrapNodeOn(WrapEdgeOn(WrapEdgeOn(NewWrapper, "chat_message", "", FALSE),
                                     "invoke_route", "", FALSE), TRUE)
          [] n = "invoke_route" ->
               WrapNodeOn(WrapEdgeOn(NewWrapper, "chat_message", "", FALSE), FALSE)
          [] n = "chat_message" ->
               WrapNodeOn(WrapEdgeOn(NewWrapper, "auto_resume", "", FALSE), FALSE)
          [] n = "auto_resume" ->
               WrapNodeOn(WrapEdgeOn(WrapEdgeOn(NewWrapper, END, "", FALSE),
                                     "invoke_route", "", FALSE), FALSE)]

\* recursion_limit of the agent's invoke: the largest a caller passes (it
\* runs out before auto_resume is reached or right after it), or the
\* default (as notify does).
ChatLimits == {MaxLimit, DefaultRecursionLimit}

\* ------------------------------------------------- the router's invoke
\* The body of a router node run on state st with the routes rs: the state
\* and the routes it leaves, whether it raised, and the router's last calls
\* (seen: what getAvailableRoute(parent_state) returned last, and the last
\* route.invoke).  invoke_route raises when __ROUTE__ names no route or the
\* route is not compiled.
RouterBody(node, st, rs, response, seen) ==
    IF node = "decide_can_route_request"
    THEN [state |-> DecideBody(st, rs, response), routes |-> rs, raised |-> FALSE,
          seen |-> [seen EXCEPT !.offered = AvailableRoutes(rs)]]
    ELSE LET s1 == TakeResume(st, rs) IN
         IF ~Registered(rs, s1.ROUTE) \/ ~RouteAt(rs, s1.ROUTE).is_initialized
         THEN [state |-> s1, routes |-> rs, raised |-> TRUE, seen |-> seen]
         ELSE LET route == RouteAt(rs, s1.ROUTE)
                  given == GetRouteState(route)
                  run   == ChildInvoke(route, given)
              IN  [state  |-> AfterRoute(s1, SetRouteState(route, run.state)),
                   routes |-> [rs EXCEPT ![RouteIndex(rs, s1.ROUTE)].state = run.state],
                   raised |-> FALSE,
                   seen   |-> [seen EXCEPT !.delegated =
                                 Delegation(s1.ROUTE, given.INTERRUPT, run.ran, run.state)]]

\* The while loop of the router's invoke, n steps taken so far: the state it
\* returns, the routes, the exception the finally block discarded, and the
\* router's last calls.
RECURSIVE RouterLoop(_, _, _, _, _, _)
RouterLoop(rs, st, n, L, response, seen) ==
    IF ~LoopCond(st) THEN [state |-> Exit(st), routes |-> rs, exc |-> "", seen |-> seen]
    ELSE IF st.EDGE \notin DOMAIN RouterNodes
    THEN [state |-> Exit(st), routes |-> rs, exc |-> "KeyError", seen |-> seen]
    ELSE LET w == RouterNodes[st.EDGE]
             b == RouterBody(st.EDGE, st, rs, response, seen)
         IN  IF b.state.EDGE \notin EdgeKeys(w.edge_map)
             THEN [state |-> Exit(b.state), routes |-> b.routes, exc |-> "KeyError",
                   seen |-> b.seen]
             ELSE LET s2 == Mark(b.state, EdgeAt(w.edge_map, b.state.EDGE)) IN
                  IF OverLimit(n + 1, L)
                  THEN [state |-> Exit([s2 EXCEPT !.error_message = LimitMessage(L)]),
                        routes |-> b.routes, exc |-> "RuntimeError", seen |-> b.seen]
                  ELSE RouterLoop(b.routes, s2, n + 1, L, response, b.seen)

\* self.router_agent.invoke(state.router_agent_state): raises when the
\* router is not compiled, else returns the state its loop ended on.  seen
\* is the router's last getAvailableRoute(parent_state) listing and its
\* last route.invoke before the call; the result carries them after it.
RouterInvoke(ra, rs, response, seen) ==
    IF ~ra.is_initialized
    THEN [state |-> ra.state, routes |-> rs, raised |-> TRUE, seen |-> seen]
    ELSE LET run == RouterLoop(rs,
                        Begin(Enter(ra.state), CHOOSE m \in StartNodes(RouterNodes) : TRUE),
                        0, DefaultRecursionLimit, response, seen)
         IN  [state |-> run.state, routes |-> run.routes, raised |-> FALSE,
              seen |-> run.seen]

\* --------------------------------------------------- the agent's bodies
\* invoke_intake, should_route being what the intake agent decided.
IntakeBody(st, should_route) ==
    [st EXCEPT !.EDGE = IF should_route THEN "invoke_route" ELSE "chat_message"]

\* chat_message
ChatMessageBody(st) == [st EXCEPT !.EDGE = "auto_resume"]

\* An auto_resume that always ends.
AutoResumeEnds(st, rstate) == [st EXCEPT !.EDGE = END]

\* auto_resume: back to invoke_route while the router state holds a
\* __RESUME__.
AutoResumeBody(st, rstate) ==
    [st EXCEPT !.EDGE = IF rstate.RESUME # "" THEN "invoke_route" ELSE END]

\* agent = ChatAgent(initial_state, intake, router): no reply notifier yet,
\* the router not compiled and without routes.
InitChat ==
    /\ phase = "defined"
    /\ nodes = ChatNodes
    /\ regs = 0
    /\ pending = NoDecorator
    /\ state2 = FreshState
    /\ is_initialized = [i \in Inst |-> FALSE]
    /\ start_node = [i \in Inst |-> NoNode]
    /\ execution_plan = [i \in Inst |-> NoPlan]
    /\ state = FreshState
    /\ pc = "idle"
    /\ cur = NoInst
    /\ limit = 0
    /\ steps = 0
    /\ ran = <<>>
    /\ obeyed = TRUE
    /\ caught = FALSE
    /\ result = Res("none", NoInst, "returned", "", NoPlan)
    /\ routes = <<>>
    /\ log_notifier = FALSE
    /\ offered = <<>>
    /\ delegated = NoDelegation
    /\ edges = NoEdges
    /\ config = NoConfig
    /\ visit = NoVisit
    /\ router_agent = [is_initialized |-> FALSE, state |-> RouterAgentState]
    /\ refining = NoRefining

\* What the agent's steps leave alone.
outsideChat == <<phase, nodes, callerVars, retryVars, refineVars>>

\* agent.router_agent.addRoute(routeAgent, routeName)
ChatAddRoute(agent, routeName) ==
    /\ pc = "idle"
    /\ router_agent' = [router_agent EXCEPT !.is_initialized = FALSE]
    /\ routes' = PutRoute(routes, routeName, NewRoute(agent, routeName))
    /\ result' = Res("addRoute", NoInst, "returned", "", NoPlan)
    /\ UNCHANGED <<outsideChat, graphVars, invokeVars, log_notifier, offered, delegated>>

\* agent.compile(reply_notifier, graph_name): the notifier is stored;
\* preflight raises without one, compiles the router when it is not
\* compiled (which compiles its routes) and lets its error through; then
\* the agent's own node map is checked.  The plan is stored on the agent;
\* the call itself returns None.
ChatCompile(withNotifier) ==
    /\ pc = "idle"
    /\ LET n    == log_notifier \/ withNotifier
           pre  == Preflight(routes, TRUE)
           rerr == IF ~n THEN "AloeGraphCompileError"
                   ELSE IF router_agent.is_initialized THEN ""
                   ELSE IF pre.err # "" THEN pre.err
                   ELSE CompileError(RouterNodes)
           err  == IF rerr # "" THEN rerr ELSE CompileError(nodes)
       IN  /\ log_notifier' = n
           /\ IF ~n \/ router_agent.is_initialized
              THEN UNCHANGED <<routes, router_agent>>
              ELSE /\ routes' = pre.routes
                   /\ router_agent' =
                        [router_agent EXCEPT !.is_initialized = FlagAfterCompile(@, rerr)]
           /\ is_initialized' =
                [is_initialized EXCEPT ![Chat] = FlagAfterCompile(@, err)]
           /\ IF err # ""
              THEN /\ result' = Res("compile", Chat, "raised", err, NoPlan)
                   /\ UNCHANGED <<start_node, execution_plan>>
              ELSE /\ start_node' =
                         [start_node EXCEPT ![Chat] = CHOOSE m \in StartNodes(nodes) : TRUE]
                   /\ execution_plan' = [execution_plan EXCEPT ![Chat] = Plan(nodes)]
                   /\ result' = Res("compile", Chat, "returned", "", NoPlan)
    /\ UNCHANGED <<outsideChat, invokeVars, offered, delegated>>

\* A pass of the agent's loop at node invoke_intake.
ChatInvokeIntake(should_route) ==
    /\ pc = "loop"
    /\ LoopCond(state)
    /\ state.EDGE = "invoke_intake"
    /\ Resolve("invoke_intake", IntakeBody(state, should_route), FALSE)
    /\ UNCHANGED <<outsideChat, graphVars, routerVars, router_agent>>

\* A pass of the agent's loop at node invoke_route: the router's invoke
\* runs inside the body, with its calls of getAvailableRoute(parent_state)
\* and of route.invoke; when it raises the body raises.
ChatInvokeRoute(response) ==
    /\ pc = "loop"
    /\ LoopCond(state)
    /\ state.EDGE = "invoke_route"
    /\ LET r == RouterInvoke(router_agent, routes, response,
                             [offered |-> offered, delegated |-> delegated])
       IN
       IF r.raised
       THEN /\ Resolve("invoke_route", state, TRUE)
            /\ UNCHANGED <<routes, router_agent, offered, delegated>>
       ELSE /\ router_agent' = [router_agent EXCEPT !.state = r.state]
            /\ routes' = r.routes
            /\ offered' = r.seen.offered
            /\ delegated' = r.seen.delegated
            /\ Resolve("invoke_route", [state EXCEPT !.EDGE = "chat_message"], FALSE)
    /\ UNCHANGED <<outsideChat, graphVars, log_notifier>>

\* A pass of the agent's loop at node chat_message.
ChatMessage ==
    /\ pc = "loop"
    /\ LoopCond(state)
    /\ state.EDGE = "chat_message"
    /\ Resolve("chat_message", ChatMessageBody(state), FALSE)
    /\ UNCHANGED <<outsideChat, graphVars, routerVars, router_agent>>

\* A pass of the agent's loop at node auto_resume.
AutoResume ==
    /\ pc = "loop"
    /\ LoopCond(state)
    /\ state.EDGE = "auto_resume"
    /\ Resolve("auto_resume", AutoResumeBody(state, router_agent.state), FALSE)
    /\ UNCHANGED <<outsideChat, graphVars, routerVars, router_agent>>

NextChat ==
    \/ \E agent \in RouteAgents, nm \in RouteNames : ChatAddRoute(agent, nm)
    \/ \E wn \in BOOLEAN : ChatCompile(wn)
    \/ \E L \in ChatLimits : InvokeStart(Chat, L, <<>>)
    \/ \E sr \in BOOLEAN : ChatInvokeIntake(sr)
    \/ \E response \in Responses : ChatInvokeRoute(response)
    \/ ChatMessage
    \/ AutoResume
    \/ InvokeReturn

SpecChat == InitChat /\ [][NextChat]_vars

\* ===================================================== deterministic bodies
\* Whole runs of invoke on a node map reg when the bodies are deterministic:
\* the k-th body call of a run yields the outcome strat[k], k counting the
\* calls from the first invoke on (a body is a function of the data it is
\* given, which the engine hands on unchanged from one call to the next).
\* The outcomes are those of bodies that return and of bodies whose
\* exception leaves invoke (the loop treats every such exception alike).  A
\* body whose exception the loop catches leaves the state a returning body
\* leaves, the one that names the same edge or, when it raised before it
\* set __EDGE__, the one that names its own node.
StrategyOutcomes ==
    {out \in BodyOutcomes : ~out.raises \/ out.exc = "KeyboardInterrupt"}

Strategies == [1..MaxBodies -> StrategyOutcomes]

\* The while loop of invoke, k bodies called before this pass over all and
\* n steps taken in this invoke: the state it returns, the bodies called in
\* this invoke, and the exception the finally block discarded ("bound" when
\* the run needs more than MaxBodies calls).
RECURSIVE EngineLoop(_, _, _, _, _, _, _)
EngineLoop(reg, strat, st, k, n, L, bodies) ==
    IF ~LoopCond(st) THEN [state |-> Exit(st), ran |-> bodies, exc |-> ""]
    ELSE IF st.EDGE \notin DOMAIN reg
    THEN [state |-> Exit(st), ran |-> bodies, exc |-> "KeyError"]
    ELSE IF k + 1 > MaxBodies
    THEN [state |-> Exit(st), ran |-> bodies, exc |-> "bound"]
    ELSE LET w  == reg[st.EDGE]
             s1 == AfterBody(st, strat[k + 1])
             r1 == Append(bodies, st.EDGE)
         IN  IF Escapes(strat[k + 1])
             THEN [state |-> Exit(s1), ran |-> r1, exc |-> strat[k + 1].exc]
             ELSE IF s1 = NoneState
             THEN [state |-> s1, ran |-> r1, exc |-> "AttributeError"]
             ELSE IF s1.EDGE \notin EdgeKeys(w.edge_map)
             THEN [state |-> Exit(s1), ran |-> r1, exc |-> "KeyError"]
             ELSE LET s2 == Mark(s1, EdgeAt(w.edge_map, s1.EDGE)) IN
                  IF OverLimit(n + 1, L)
                  THEN [state |-> Exit([s2 EXCEPT !.error_message = LimitMessage(L)]),
                        ran |-> r1, exc |-> "RuntimeError"]
                  ELSE EngineLoop(reg, strat, s2, k + 1, n + 1, L, r1)

\* g.invoke(st, L) on a compiled graph with node map reg, k bodies called
\* by earlier invokes.
EngineInvoke(reg, strat, st, k, L) ==
    EngineLoop(reg, strat, Begin(Enter(st), CHOOSE m \in StartNodes(reg) : TRUE),
               k, 0, L, <<>>)

\* The caller invokes, and invokes again on the returned state as long as
\* it is suspended: the bodies called over all invokes, the number of
\* invokes, and the exception of the last one.
RECURSIVE InvokeUntilDone(_, _, _, _, _, _)
InvokeUntilDone(reg, strat, st, L, bodies, invokes) ==
    LET run == EngineInvoke(reg, strat, st, Len(bodies), L)
        all == bodies \o run.ran
    IN  IF run.state.INTERRUPT # "" /\ run.exc = ""
        THEN InvokeUntilDone(reg, strat, run.state, L, all, invokes + 1)
        ELSE [ran |-> all, invokes |-> invokes + 1, exc |-> run.exc]

\* ========================================================= apply_refinements
\* node/refinement.py. Ids are a prefix and the number the id factory
\* gave: "RF" for refinements, id_prefix for targets.
Id(prefix, n) == [prefix |-> prefix, n |-> n]

\* refinement_target_id left at its default, the empty string.
NoId == Id("", 0)

\* The id_prefix the caller passes.
IdPrefix == "T"

\* The Refinement fields apply_refinements reads or writes.
Refinement(id, operation, type, target, ordinal) ==
    [id |-> id, operation |-> operation, refinement_target_type |-> type,
     refinement_target_id |-> target, ordinal |-> ordinal]

\* What fn_target_factory(r, id) builds: a target with that id, made from r.
Target(r, id) == [id |-> id, by |-> r.id]

\* fn_is_meta_refinement
fn_is_meta_refinement(r) ==
    /\ \/ r.refinement_target_type = "refinement"
       \/ (r.refinement_target_id # NoId /\ r.refinement_target_id.prefix = "RF")
    /\ r.operation # "commit"

\* The first loop: every new refinement gets an id from the factory, and an
\* ordinal from the factory when it came with -1. next is the number the
\* factory gives next.
RECURSIVE AssignIds(_, _, _)
AssignIds(new, k, next) ==
    IF k > Len(new) THEN [refinements |-> new, next |-> next]
    ELSE LET r == new[k] IN
         IF r.ordinal = -1
         THEN AssignIds([new EXCEPT ![k] = [r EXCEPT !.id = Id("RF", next),
                                                     !.ordinal = next + 1]],
                        k + 1, next + 2)
         ELSE AssignIds([new EXCEPT ![k] = [r EXCEPT !.id = Id("RF", next)]],
                        k + 1, next + 1)

\* [r for r in seq if keep(r)] for the two filters of new_refinements.
RECURSIVE Remaining(_)
Remaining(seq) ==
    IF seq = <<>> THEN <<>>
    ELSE IF fn_is_meta_refinement(Head(seq)) THEN Remaining(Tail(seq))
    ELSE <<Head(seq)>> \o Remaining(Tail(seq))

RECURSIVE Metas(_)
Metas(seq) ==
    IF seq = <<>> THEN <<>>
    ELSE IF fn_is_meta_refinement(Head(seq)) THEN <<Head(seq)>> \o Metas(Tail(seq))
    ELSE Metas(Tail(seq))

\* The list comprehension of a meta "modify": going through the staged
\* refinements, r takes over operation and target of each one whose id is
\* r's current target id; hit is the set of places where that happened.
RECURSIVE ModifyScan(_, _, _, _)
ModifyScan(r, staged, j, hit) ==
    IF j > Len(staged) THEN [r |-> r, hit |-> hit]
    ELSE LET tref == staged[j] IN
         IF tref.id = r.refinement_target_id
         THEN ModifyScan([r EXCEPT !.operation = tref.operation,
                                   !.refinement_target_id = tref.refinement_target_id,
                                   !.refinement_target_type = tref.refinement_target_type],
                         staged, j + 1, hit \cup {j})
         ELSE ModifyScan(r, staged, j + 1, hit)

\* The places hit hold the object r itself, as the scan left it.
ModifyStaged(r, staged) ==
    LET scan == ModifyScan(r, staged, 1, {}) IN
    [j \in 1..Len(staged) |-> IF j \in scan.hit THEN scan.r ELSE staged[j]]

\* [x for x in seq if x.id != id]
RECURSIVE Without(_, _)
Without(seq, id) ==
    IF seq = <<>> THEN <<>>
    ELSE IF Head(seq).id = id THEN Without(Tail(seq), id)
    ELSE <<Head(seq)>> \o Without(Tail(seq), id)

\* One meta refinement applied to the staged list.
MetaEdit(r, staged) ==
    CASE r.operation = "add" -> Append(staged, r)
      [] r.operation = "modify" ->
            IF r.refinement_target_id # NoId THEN ModifyStaged(r, staged) ELSE staged
      [] r.operation = "delete" ->
            IF r.refinement_target_id # NoId THEN Without(staged, r.refinement_target_id)
            ELSE staged
      [] OTHER -> staged

\* for r in meta_refinements
RECURSIVE MetaEdits(_, _, _)
MetaEdits(metas, k, staged) ==
    IF k > Len(metas) THEN staged
    ELSE MetaEdits(metas, k + 1, MetaEdit(metas[k], staged))

\* A commit that leaves deletions out.
CommitOneKeeps(r, targets, next) ==
    CASE r.operation = "add" ->
            [targets |-> Append(targets, Target(r, Id(IdPrefix, next))), next |-> next + 1]
      [] r.operation = "modify" /\ r.refinement_target_id # NoId ->
            [targets |-> [j \in 1..Len(targets) |->
                             IF targets[j].id = r.refinement_target_id
                             THEN Target(r, targets[j].id) ELSE targets[j]],
             next |-> next]
      [] OTHER -> [targets |-> targets, next |-> next]

\* One staged refinement applied to the targets on a commit.
CommitOne(r, targets, next) ==
    CASE r.operation = "add" ->
            [targets |-> Append(targets, Target(r, Id(IdPrefix, next))), next |-> next + 1]
      [] r.operation = "modify" /\ r.refinement_target_id # NoId ->
            [targets |-> [j \in 1..Len(targets) |->
                             IF targets[j].id = r.refinement_target_id
                             THEN Target(r, targets[j].id) ELSE targets[j]],
             next |-> next]
      [] r.operation = "delete" /\ r.refinement_target_id # NoId ->
            [targets |-> Without(targets, r.refinement_target_id), next |-> next]
      [] OTHER -> [targets |-> targets, next |-> next]

\* for r in updated_refinements, on a commit
RECURSIVE CommitLoop(_, _, _, _)
CommitLoop(staged, k, targets, next) ==
    IF k > Len(staged) THEN [targets |-> targets, next |-> next]
    ELSE LET one == CommitOne(staged[k], targets, next) IN
         CommitLoop(staged, k + 1, one.targets, one.next)

\* any(r.operation == "commit" for r in remaining_new)
CommitRequested(remaining_new) ==
    \E k \in 1..Len(remaining_new) : remaining_new[k].operation = "commit"

\* The staged list apply_refinements returns.
ReturnedStaged(commit, updated_refinements, remaining_new) ==
    IF commit THEN <<>> ELSE updated_refinements \o remaining_new

\* apply_refinements(new_refinements, state_refinements, state_targets,
\* fn_target_factory, id_factory, id_prefix), the factory giving next first.
apply_refinements(new_refinements, state_refinements, state_targets, next) ==
    LET ids     == AssignIds(new_refinements, 1, next)
        remaining_new == Remaining(ids.refinements)
        updated_refinements == MetaEdits(Metas(ids.refinements), 1, state_refinements)
        commit  == CommitRequested(remaining_new)
        applied == IF commit
                   THEN CommitLoop(updated_refinements, 1, state_targets, ids.next)
                   ELSE [targets |-> state_targets, next |-> ids.next]
    IN  [updated_refinements |-> ReturnedStaged(commit, updated_refinements, remaining_new),
         updated_targets |-> applied.targets,
         next |-> applied.next]

\* Sequences over S of at most n elements.
SeqsUpTo(S, n) == UNION {[1..k -> S] : k \in 0..n}

\* The targets a caller holds: ids T1, T2, ..., made by no refinement.
StateTargets == {[j \in 1..k |-> [id |-> Id(IdPrefix, j), by |-> NoId]] : k \in 0..MaxTargets}

\* The staged refinements a caller holds: what earlier calls without a
\* commit returned, ids RF1, RF2, ... in order.
StagedShapes ==
    [operation : {"add", "modify", "delete"}, refinement_target_id : {NoId, Id(IdPrefix, 1)}]

StateRefinements ==
    {[j \in 1..Len(sh) |-> Refinement(Id("RF", j), sh[j].operation, "requirement",
                                      sh[j].refinement_target_id, 0)]
        : sh \in SeqsUpTo(StagedShapes, MaxStaged)}

\* The refinements of a batch, as the caller submits them: no id yet;
\* requirements naming any id, refinements of refinements naming a staged
\* one or nothing, and a requirement that brings its ordinal.
NewRefinement ==
    {Refinement(NoId, op, "requirement", t, -1) :
        op \in {"add", "modify", "delete", "commit"}, t \in {Id(IdPrefix, 1), Id("RF", 1)}}
    \cup {Refinement(NoId, op, "requirement", NoId, -1) : op \in {"add", "commit"}}
    \cup {Refinement(NoId, op, "refinement", NoId, -1) : op \in {"add", "commit"}}
    \cup {Refinement(NoId, "add", "requirement", NoId, 0)}

\* The first number of the id factory: after the ids handed out before.
FirstNewId == MaxStaged + MaxTargets + 1

InitRefine ==
    /\ phase = "defined"
    /\ nodes = [n \in {} |-> NewWrapper]
    /\ regs = 0
    /\ pending = NoDecorator
    /\ state2 = FreshState
    /\ is_initialized = [i \in Inst |-> FALSE]
    /\ start_node = [i \in Inst |-> NoNode]
    /\ execution_plan = [i \in Inst |-> NoPlan]
    /\ state = FreshState
    /\ pc = "idle"
    /\ cur = NoInst
    /\ limit = 0
    /\ steps = 0
    /\ ran = <<>>
    /\ obeyed = TRUE
    /\ caught = FALSE
    /\ result = Res("none", NoInst, "returned", "", NoPlan)
    /\ routes = <<>>
    /\ log_notifier = FALSE
    /\ offered = <<>>
    /\ delegated = NoDelegation
    /\ edges = NoEdges
    /\ config = NoConfig
    /\ visit = NoVisit
    /\ router_agent = NoRouter
    /\ \E new \in SeqsUpTo(NewRefinement, MaxBatch), staged \in StateRefinements,
          targets \in StateTargets :
          refining = [returned |-> FALSE,
                      new_refinements |-> new,
                      state_refinements |-> staged,
                      state_targets |-> targets,
                      next |-> FirstNewId]

\* The caller calls apply_refinements and gets the two lists.
ApplyRefinements ==
    /\ ~refining.returned
    /\ "new_refinements" \in DOMAIN refining
    /\ LET out == apply_refinements(refining.new_refinements, refining.state_refinements,
                                    refining.state_targets, refining.next)
       IN  refining' = [refining EXCEPT !.returned = TRUE] @@
                       [updated_refinements |-> out.updated_refinements,
                        updated_targets |-> out.updated_targets]
    /\ UNCHANGED <<phase, nodes, callerVars, graphVars, invokeVars, result, routerVars,
                   retryVars, chatVars>>

NextRefine == ApplyRefinements

SpecRefine == InitRefine /\ [][NextRefine]_vars

\* ================================================================ claims
Last(q) == q[Len(q)]

\* This step is the call g.compile() on instance i.
CompileCalled(i) == pc = "idle" /\ result'.op = "compile" /\ result'.inst = i

\* This step is the call g.invoke(state, recursion_limit) on instance i.
InvokeCalled(i) == pc = "idle" /\ result'.op = "invoke" /\ result'.inst = i

\* Exactly one node of the registry is an entry node.
OneEntry(dict) ==
    \E n \in DOMAIN dict :
        dict[n].is_entry /\ \A m \in DOMAIN dict : dict[m].is_entry => m = n

\* Every edge target is END or a registered node name.
Resolvable(dict) ==
    \A n \in DOMAIN dict : \A k \in 1..Len(dict[n].edge_map) :
        dict[n].edge_map[k].target \in DOMAIN dict \cup {END}

\* C1: invoke on an instance that is not marked compiled (never compiled, or
\* reset by a registration since it was compiled) raises the not-compiled
\* error to its caller, calls no node body and leaves __EDGE__ and
\* __INTERRUPT__ as they were.
C1_NotCompiledInvokeRaises ==
    [][\A i \in Inst :
        (InvokeCalled(i) /\ ~is_initialized[i]) =>
            /\ result'.status = "raised"
            /\ result'.err = "Graph has not been compiled"
            /\ result'.ran = <<>>
            /\ pc' = "idle"
            /\ ran' = <<>>
            /\ StateOf(i)'.EDGE = StateOf(i).EDGE
            /\ StateOf(i)'.INTERRUPT = StateOf(i).INTERRUPT]_vars

\* An invoke was refused on an instance that had been compiled before and
\* was reset by a registration.
C1_Witness ==
    /\ result.op = "invoke"
    /\ result.status = "raised"
    /\ result.err = "Graph has not been compiled"
    /\ execution_plan[result.inst] # NoPlan
    /\ ~is_initialized[result.inst]

\* C2: on a registry with exactly one entry node and every edge target END
\* or a registered node, compile() returns, marks the instance compiled,
\* sets start_node to the entry node, and returns a plan that lists for
\* every registered node exactly the targets of its edges.
C2_CompileSucceeds ==
    [][\A i \in Inst :
        (CompileCalled(i) /\ OneEntry(nodes) /\ Resolvable(nodes)) =>
            /\ result'.status = "returned"
            /\ is_initialized'[i]
            /\ start_node'[i] \in DOMAIN nodes
            /\ nodes[start_node'[i]].is_entry
            /\ DOMAIN result'.plan = DOMAIN nodes
            /\ \A n \in DOMAIN nodes :
                /\ Len(result'.plan[n].targets) = Len(nodes[n].edge_map)
                /\ \A k \in 1..Len(nodes[n].edge_map) :
                    result'.plan[n].targets[k] = nodes[n].edge_map[k].target]_vars

\* A compile returned the plan of a two-node registry with edges.
C2_Witness ==
    /\ result.op = "compile"
    /\ result.status = "returned"
    /\ Cardinality(DOMAIN nodes) = 2
    /\ \E n \in DOMAIN nodes : Len(nodes[n].edge_map) > 0
    /\ is_initialized[result.inst]

\* C3: compile() on a registry with no entry node, or with two or more,
\* raises a compile error, returns no plan and picks no start node; when the
\* edges resolve, the error is the one for the entry rule broken.
C3_EntryCountEnforced ==
    [][\A i \in Inst :
        (CompileCalled(i) /\ ~OneEntry(nodes)) =>
            /\ result'.status = "raised"
            /\ result'.err # ""
            /\ result'.plan = NoPlan
            /\ start_node'[i] = start_node[i]
            /\ Resolvable(nodes) =>
                result'.err = IF \E n \in DOMAIN nodes : nodes[n].is_entry
                              THEN "More than one start node defined"
                              ELSE "No start node defined"]_vars

\* A compile was refused because two nodes are entry nodes.
C3_Witness ==
    /\ result.op = "compile"
    /\ result.status = "raised"
    /\ result.err = "More than one start node defined"
    /\ Cardinality({n \in DOMAIN nodes : nodes[n].is_entry}) = 2

\* C4: compile() on a registry in which some edge's target is neither END
\* nor a registered node raises the dangling-target error.
C4_DanglingTargetRefused ==
    [][\A i \in Inst :
        (CompileCalled(i) /\ ~Resolvable(nodes)) =>
            /\ result'.status = "raised"
            /\ result'.err = "target not found in nodes"
            /\ result'.plan = NoPlan]_vars

\* A compile was refused for a dangling target that is not the first edge
\* of its node.
C4_Witness ==
    /\ result.op = "compile"
    /\ result.status = "raised"
    /\ result.err = "target not found in nodes"
    /\ \E n \in DOMAIN nodes :
        /\ Len(nodes[n].edge_map) = 2
        /\ nodes[n].edge_map[1].target \in DOMAIN nodes \cup {END}
        /\ nodes[n].edge_map[2].target \notin DOMAIN nodes \cup {END}

\* C5: when compile() fails, no plan is returned, the stored plan and start
\* node are as before the call, and the instance is left not marked
\* compiled, so that a following invoke fails as not compiled.
C5_FailedCompileLeavesNotReady ==
    [][\A i \in Inst :
        (CompileCalled(i) /\ result'.status = "raised") =>
            /\ result'.plan = NoPlan
            /\ execution_plan'[i] = execution_plan[i]
            /\ start_node'[i] = start_node[i]
            /\ ~is_initialized'[i]]_vars

\* The linear orders of a registry: the entry node first, every node with one
\* edge, not an interrupt edge, leading to the next node, the last to END.
Chains(dict) ==
    IF DOMAIN dict = {} THEN {}
    ELSE LET n == Cardinality(DOMAIN dict) IN
         {c \in [1..n -> DOMAIN dict] :
            /\ \A j, k \in 1..n : j # k => c[j] # c[k]
            /\ dict[c[1]].is_entry
            /\ \A k \in 1..n :
                /\ Len(dict[c[k]].edge_map) = 1
                /\ ~dict[c[k]].edge_map[1].interrupt
                /\ dict[c[k]].edge_map[1].target = IF k < n THEN c[k + 1] ELSE END}

\* C6: on a compiled linear graph of n <= recursion_limit nodes whose bodies
\* each select their single edge, a fresh invoke runs the bodies once each
\* in chain order, takes n steps and returns with __EDGE__ = END, no
\* interrupt marker and no error.
C6_LinearRunsToEnd ==
    \A c \in Chains(nodes) :
        (/\ pc = "idle"
         /\ result.op = "invoke"
         /\ is_initialized[result.inst]
         /\ result.resume = ""
         /\ result.obeyed
         /\ Len(c) <= result.limit) =>
            /\ result.status = "returned"
            /\ result.err = ""
            /\ result.ran = c
            /\ result.steps = Len(c)
            /\ state.EDGE = END
            /\ state.INTERRUPT = ""
            /\ state.error_message = NoMessage

\* The pass of the loop ended in the body: its exception left invoke before
\* the loop read which edge the body had named.
BodyEscaped ==
    pc = "loop" /\ pc' = "idle" /\ result'.err \in BaseExceptions

\* C7: when a node body selects an interrupt edge (the loop reads __EDGE__
\* after the call and finds that edge), the marker is set to that edge's
\* name, invoke returns to its caller with the marker still set, and no
\* further node body (so not the target's) is run in that invoke.
C7_InterruptSuspends ==
    [][/\ (/\ pc = "loop"
           /\ LoopCond(state)
           /\ state.EDGE \in DOMAIN nodes
           /\ ~BodyEscaped
           /\ state'.EDGE \in EdgeKeys(nodes[state.EDGE].edge_map)
           /\ EdgeAt(nodes[state.EDGE].edge_map, state'.EDGE).interrupt) =>
              /\ state'.INTERRUPT = state'.EDGE
              /\ pc' = "idle" => result'.status = "returned"
       /\ (pc = "loop" /\ state.INTERRUPT # "") =>
              /\ pc' = "idle"
              /\ result'.status = "returned"
              /\ result'.ran = ran
              /\ state'.INTERRUPT = state.INTERRUPT]_vars

\* An invoke returned suspended on an interrupt edge registered under a name
\* of its own, the edge's target body not run.
C7_Witness ==
    /\ pc = "idle"
    /\ result.op = "invoke"
    /\ result.status = "returned"
    /\ state.INTERRUPT = Alias
    /\ Len(result.ran) = 1
    /\ EdgeAt(nodes[result.ran[1]].edge_map, Alias).target \in DOMAIN nodes
    /\ EdgeAt(nodes[result.ran[1]].edge_map, Alias).target # result.ran[1]

\* C8: the invoke that follows an invoke suspended on interrupt edge e (under
\* any name), on the state that invoke returned, starts its loop with the
\* marker cleared and with e's target as the node to run first.
C8_ResumeAtTarget ==
    [][\A i \in Inst :
        (/\ InvokeCalled(i)
         /\ pc' = "loop"
         /\ result.op = "invoke"
         /\ result.status = "returned"
         /\ result.ran # <<>>
         /\ state.INTERRUPT # ""
         /\ result'.resume = state.INTERRUPT) =>
            /\ state'.INTERRUPT = ""
            /\ state'.EDGE =
                 EdgeAt(nodes[Last(result.ran)].edge_map, state.INTERRUPT).target]_vars

\* C9: an invoke whose step counter exceeded recursion_limit L raised the
\* step-limit error to its caller, on dispatch L + 1, with the limit recorded
\* in error_message.
C9_StepLimitRaises ==
    (pc = "idle" /\ result.op = "invoke" /\ result.steps > result.limit) =>
        /\ result.status = "raised"
        /\ result.err = "RuntimeError"
        /\ Len(result.ran) = result.limit + 1
        /\ state.error_message = LimitMessage(result.limit)

\* C10: when invoke returns without raising, either __EDGE__ = END with no
\* interrupt marker (terminated) or the interrupt marker is set (suspended).
C10_ReturnsTerminatedOrSuspended ==
    (pc = "idle" /\ result.op = "invoke" /\ result.status = "returned") =>
        \/ state.EDGE = END /\ state.INTERRUPT = ""
        \/ state.INTERRUPT # ""

\* This step is a pass of the loop in which the body of node state.EDGE was
\* called and left a state with __EDGE__ naming no edge of that node.
UndefinedEdgeStep ==
    /\ pc = "loop"
    /\ LoopCond(state)
    /\ state.EDGE \in DOMAIN nodes
    /\ state' # NoneState
    /\ state'.EDGE \notin EdgeKeys(nodes[state.EDGE].edge_map)

\* C11: when a node body leaves __EDGE__ naming no edge of its node and the
\* node has no edge or two or more, invoke ends at once by raising to its
\* caller, with no further node body run.
C11_UndefinedEdgeRaises ==
    [][(UndefinedEdgeStep /\ Len(nodes[state.EDGE].edge_map) # 1) =>
            /\ pc' = "idle"
            /\ result'.status = "raised"
            /\ result'.err # ""
            /\ result'.ran = Append(ran, state.EDGE)]_vars

\* C12: when a node body leaves __EDGE__ naming no edge of its node and the
\* node has exactly one edge, the engine takes that edge: the edge lookup
\* does not fail, the step is counted, and the interrupt marker is set
\* exactly when that edge is an interrupt edge.
C12_SingleEdgeFallback ==
    [][(UndefinedEdgeStep /\ Len(nodes[state.EDGE].edge_map) = 1) =>
            /\ (pc' = "idle" => result'.err # "KeyError" /\ result'.steps = steps + 1)
            /\ (pc' = "loop" => steps' = steps + 1)
            /\ (state'.INTERRUPT # "") = nodes[state.EDGE].edge_map[1].interrupt]_vars

\* The names under which routes are registered, and those of the routes
\* whose isAvailable is true.
RouteNamesOf(rs)     == {rs[k].name : k \in 1..Len(rs)}
AvailableNamesOf(rs) == {rs[k].name : k \in {j \in 1..Len(rs) : rs[j].available}}

\* The last router invoke has returned and the last node body it called was
\* invoke_route, which did not raise, so that delegated describes the child
\* call it made.
DelegatedLast ==
    /\ pc = "idle"
    /\ result.op = "invoke"
    /\ result.ran # <<>>
    /\ Last(result.ran) = "invoke_route"
    /\ ~result.caught

\* C13: getAvailableRoute(parent_state) called without a route name returns
\* exactly the registered routes whose isAvailable(parent_state) is true,
\* each once.
C13_AvailableRoutesListed ==
    [][(pc = "idle" /\ result'.op = "getAvailableRoute") =>
            /\ {offered'[k] : k \in 1..Len(offered')} = AvailableNamesOf(routes)
            /\ Len(offered') = Cardinality(AvailableNamesOf(routes))]_vars

\* With routes A (available) and B (unavailable) the call returned only A.
C13_Witness ==
    /\ result.op = "getAvailableRoute"
    /\ Len(routes) = 2
    /\ RouteAt(routes, "A").available
    /\ ~RouteAt(routes, "B").available
    /\ offered = <<"A">>

\* C14: when the child invoked by invoke_route returns suspended (its
\* interrupt marker set), the router's invoke returns suspended too, with
\* __INTERRUPT__ = "invoke_route" and __RESUME__ the name of the route
\* delegated to.
C14_ChildSuspensionPropagates ==
    (DelegatedLast /\ delegated.INTERRUPT # "") =>
        /\ result.status = "returned"
        /\ state.INTERRUPT = "invoke_route"
        /\ state.RESUME = delegated.route

\* The node a suspended child is to run next: the target of the interrupt
\* edge its marker names.
SuspendedBefore(reg, marker) ==
    LET n == CHOOSE m \in DOMAIN reg : marker \in EdgeKeys(reg[m].edge_map)
    IN  EdgeAt(reg[n].edge_map, marker).target

\* C15: the router invoke that follows one suspended on child route R, R's
\* getRouteState handing out R's kept state, runs invoke_route first,
\* delegates to R again, leaves __RESUME__ empty unless R suspends again,
\* and R's first node body is the one R was suspended before, not R's entry
\* node.
C15_ResumeReentersChild ==
    [][\A k \in 1..Len(routes) :
        (/\ pc = "loop"
         /\ ran = <<>>
         /\ LoopCond(state)
         /\ result.resume = "invoke_route"
         /\ state.RESUME = routes[k].name
         /\ routes[k].persists
         /\ routes[k].state.INTERRUPT # "") =>
            /\ state.EDGE = "invoke_route"
            /\ delegated'.route = routes[k].name
            /\ delegated'.entered = routes[k].state.INTERRUPT
            /\ delegated'.INTERRUPT = "" => state'.RESUME = ""
            /\ delegated'.ran # <<>>
            /\ delegated'.ran[1] =
                 SuspendedBefore(ChildNodes(routes[k].graph), routes[k].state.INTERRUPT)
            /\ ~ChildNodes(routes[k].graph)[delegated'.ran[1]].is_entry]_vars

\* C16: when the child invoked by invoke_route returns terminated (at END,
\* no interrupt marker), the router's invoke returns with __EDGE__ = END and
\* with __INTERRUPT__ and __RESUME__ empty.
C16_ChildEndReturnsEnd ==
    (DelegatedLast /\ delegated.EDGE = END /\ delegated.INTERRUPT = "") =>
        /\ result.status = "returned"
        /\ state.EDGE = END
        /\ state.INTERRUPT = ""
        /\ state.RESUME = ""

\* A router invoke resumed a suspended child, which ran to END, and the
\* router returned at END.
C16_Witness ==
    /\ DelegatedLast
    /\ delegated.entered # ""
    /\ delegated.EDGE = END
    /\ delegated.INTERRUPT = ""
    /\ result.resume = "invoke_route"
    /\ state.EDGE = END

\* C17: addRoute leaves the router not marked compiled and the registry with
\* one route per name, the route just added under its name and the other
\* names as before; only a compile() that returns marks the router compiled
\* again, and until then invoke raises the not-compiled error.
C17_AddRouteInvalidates ==
    [][/\ (pc = "idle" /\ result'.op = "addRoute") =>
            /\ ~is_initialized'[Router]
            /\ \E nm \in RouteNames, agent \in RouteAgents :
                /\ RouteNamesOf(routes') = RouteNamesOf(routes) \cup {nm}
                /\ RouteAt(routes', nm) = NewRoute(agent, nm)
                /\ \A other \in RouteNamesOf(routes) \ {nm} :
                        RouteAt(routes', other) = RouteAt(routes, other)
       /\ \A j, k \in 1..Len(routes') : routes'[j].name = routes'[k].name => j = k
       /\ (~is_initialized[Router] /\ is_initialized'[Router]) =>
            (result'.op = "compile" /\ result'.status = "returned")
       /\ (InvokeCalled(Router) /\ ~is_initialized[Router]) =>
            /\ result'.status = "raised"
            /\ result'.err = "Graph has not been compiled"
            /\ pc' = "idle"]_vars

\* A route was added under a name already taken, after the router had been
\* compiled: the first route is a new one while the second is still the
\* compiled one.
C17_Witness ==
    /\ result.op = "addRoute"
    /\ execution_plan[Router] # NoPlan
    /\ ~is_initialized[Router]
    /\ Len(routes) = 2
    /\ ~routes[1].is_initialized
    /\ routes[1].graph # "broken"
    /\ routes[2].is_initialized

\* C18: whenever the router is marked compiled, every registered route is
\* marked compiled.
C18_CompiledRouterHasCompiledRoutes ==
    is_initialized[Router] => \A k \in 1..Len(routes) : routes[k].is_initialized

\* The router was compiled a second time, one route compiled by that call
\* and one by an earlier call.
C18_Witness ==
    /\ result.op = "compile"
    /\ result.status = "returned"
    /\ is_initialized[Router]
    /\ Len(routes) = 2
    /\ routes[1].state # FreshState
    /\ routes[2].state = FreshState

\* The last call was an invoke of the first-generation engine that raised
\* the retries-exhausted error for the node it was running.
ExhaustedRaised ==
    /\ pc = "idle"
    /\ result.op = "V1.invoke"
    /\ result.status = "raised"
    /\ result.err = RetriesExhausted(visit.node, visit.retries)

\* C19: while the completion check of the node being run fails, the node is
\* run again and stays the current node; when the check has failed as many
\* times as the edge's retry budget allows (completion_check_retries, 1 if
\* that is 0), invoke raises the error naming the node and the budget, with
\* the node still the current node.
C19_RetriesExhaustedRaises ==
    [][(pc = "check" /\ ~config.complete) =>
            /\ visit.retries = (IF edges[visit.node].retries = 0 THEN 1
                                ELSE edges[visit.node].retries)
            /\ config'.current_node = visit.node
            /\ visit'.node = visit.node
            /\ visit'.evals = visit.evals + 1
            /\ IF visit.evals + 1 < visit.retries
               THEN pc' = "check"
               ELSE /\ pc' = "idle"
                    /\ result'.status = "raised"
                    /\ result'.err = RetriesExhausted(visit.node, visit.retries)
                    /\ visit'.evals = visit.retries]_vars

\* A node registered with the default budget had its check fail five times
\* and invoke raised.
C19_Witness ==
    /\ ExhaustedRaised
    /\ edges[visit.node].retries = DefaultRetries
    /\ visit.evals = 5
    /\ config.current_node = visit.node

\* C20: when invoke raises retries-exhausted, every run of the node body was
\* followed by an evaluation of the completion check, and the state given up
\* on fails the check.
C20_LastRerunIsChecked ==
    ExhaustedRaised =>
        /\ visit.evals = visit.bodies
        /\ ~config.complete

\* C21: AloeGraph.invoke never advances to a next node outside the available
\* transitions of the current node (the targets whose transition checks all
\* pass): whenever the branch decision makes invoke go on to another pass of
\* its loop, the node it moves to is an available transition.
C21_AdvancesOnlyToAvailable ==
    [][(pc = "decide" /\ pc' = "top")
          => config'.current_node \in AvailableTransitions(config, edges)]_vars

\* C22: when preflight() returns False, compile() raises
\* AloeGraphCompileError and the graph is not marked compiled.
C22_FailedPreflightRaises ==
    (result.op = "compile" /\ ~result.preflight)
        => /\ result.status = "raised"
           /\ result.err = "AloeGraphCompileError"
           /\ ~is_initialized[result.inst]

\* C23: a missing logger only drops the trace events: on the routes the
\* router holds, the preflight of RouterAgent.compile gives the same outcome
\* (the exception it leaves with, and the routes as compiled) whether or not
\* the router has a log notifier.
C23_LoggerChangesNothing ==
    Preflight(routes, FALSE) = Preflight(routes, TRUE)

\* This step belongs to a registration made through instance i: the call
\* g.AloeNode(...) or g.AloeEdge(...), or the decorator it returned being
\* applied.
RegistersThrough(i) ==
    /\ phase = "defined"
    /\ pc = "idle"
    /\ result'.inst = i
    /\ result'.op \in {"AloeNode", "AloeEdge", "wrap_node", "wrap_edge"}

\* C24: two instances share no mutable data: a registration made through
\* one instance changes neither the node registry, nor the start node, nor
\* the compiled flag that the other instance observes.
C24_InstancesShareNothing ==
    [][\A i \in Inst :
          RegistersThrough(i)
              => \A j \in Inst \ {i} :
                    /\ NodesOf(j)' = NodesOf(j)
                    /\ start_node'[j] = start_node[j]
                    /\ is_initialized'[j] = is_initialized[j]]_vars

\* No two edges of one node carry the same name.
UniqueEdgeNames(dict) ==
    \A n \in DOMAIN dict : \A j, k \in 1..Len(dict[n].edge_map) :
        j # k => dict[n].edge_map[j].name # dict[n].edge_map[k].name

\* C25: within one node edge names are unique under any sequence of edge
\* registrations, and a registration that wrap_edge rejects (the name, or
\* the target when no name is given, is already there) leaves the edge maps
\* unchanged.
C25_EdgeNamesUnique ==
    [][/\ UniqueEdgeNames(nodes')
       /\ (result'.op = "wrap_edge" /\ result'.status = "raised")
             => (result'.err = "TypeError" /\ nodes' = nodes)]_vars

\* An edge under the explicit name, added through the instance, was refused
\* on a node that already had one of that name.
C25_Witness ==
    /\ phase = "defined"
    /\ result.op = "wrap_edge"
    /\ result.status = "raised"
    /\ \E n \in DOMAIN nodes : Alias \in EdgeKeys(nodes[n].edge_map)

\* C26: after a node body selected a non-interrupt edge e, the interrupt
\* marker is empty and the dispatch target is e's target node (END ends the
\* loop), also when e is registered under a name other than its target.
C26_DispatchesEdgeTarget ==
    [][(pc = "loop" /\ pc' = "loop" /\ ran' # ran)
          => LET e == EdgeAt(nodes[state.EDGE].edge_map, state'.EDGE) IN
             ~e.interrupt => (state'.INTERRUPT = "" /\ state'.EDGE = e.target)]_vars

\* A pass of the loop of invoke in which the node body raised, an exception
\* the loop caught or one that left invoke.
BodyRaisedPass ==
    /\ pc = "loop"
    /\ IF pc' = "loop" THEN caught' /\ ran' # ran
       ELSE /\ result'.ran # ran
            /\ (result'.caught \/ result'.err \in BaseExceptions)

\* C27: when a node body raises during invoke, the exception stays inside
\* the pass and the failure is recorded into the state's error message.
C27_BodyFailureRecorded ==
    [][BodyRaisedPass
          => state'.error_message \notin {NoMessage, LimitMessage(limit)}]_vars

\* C28: when a node body raises without having changed __EDGE__, the loop
\* re-attempts with the unchanged position: invoke stays in its loop and
\* the node to dispatch next is that same node.
C28_RaisedBodyRunsAgain ==
    [][(BodyRaisedPass /\ state'.EDGE = state.EDGE /\ ~OverLimit(steps + 1, limit))
          => (pc' = "loop" /\ LoopCond(state') /\ state'.EDGE = state.EDGE)]_vars

\* C29: an invoke on a state whose interrupt marker is empty dispatches the
\* entry node first, whatever __EDGE__ held before: until a body has run the
\* entry node is the one to dispatch, and the first body run is the entry
\* node's (so a first body other than the entry node's means the marker was
\* set).
C29_FreshInvokeStartsAtEntry ==
    /\ (pc = "loop" /\ result.resume = "")
          => IF ran = <<>>
             THEN /\ state.EDGE = start_node[cur]
                  /\ LoopCond(state)
                  /\ state.EDGE \in DOMAIN nodes
             ELSE ran[1] = start_node[cur]
    /\ (result.op = "invoke" /\ result.status = "returned" /\ result.resume = "")
          => (result.ran # <<>> /\ result.ran[1] = start_node[result.inst])

\* An invoke on the state of a finished run (__EDGE__ was END, no marker)
\* has run the entry node's body.
C29_Witness ==
    /\ pc = "loop"
    /\ result.resume = ""
    /\ result.prev = END
    /\ ran = <<start_node[cur]>>

\* C30: suspension is never an error: the pass in which an interrupt edge
\* is taken ends invoke without a step-limit error and without setting the
\* error message, whatever the number of steps taken before.
C30_SuspensionIsNoError ==
    [][(pc = "loop" /\ state.INTERRUPT = "" /\ state'.INTERRUPT # "" /\ state' # NoneState)
          => /\ state'.error_message = state.error_message
             /\ pc' = "idle" => result'.err = ""]_vars

\* C31: whenever AloeGraph.invoke moves past a node's completion check (the
\* check passed on the first or on a later evaluation), the retry hint of
\* the state is empty.
C31_HintClearedOnSuccess ==
    pc = "decide" => config.retry_message = ""

\* The check failed once, stored its hint, and passed on the re-run.
C31_Witness ==
    /\ pc = "decide"
    /\ visit.attempt > 0
    /\ visit.evals = visit.attempt + 1
    /\ config.retry_message = ""

\* C32: at the start of a fresh top-level invoke the retry hint left by an
\* earlier invocation is cleared before the first node body runs: the first
\* body of an AloeGraph.invoke is run on a state whose retry_message is
\* empty (node bodies leave retry_message alone).
C32_FreshInvokeClearsHint ==
    [][(pc = "top" /\ steps = 0 /\ pc' = "check") => config'.retry_message = ""]_vars

\* C33: a single invoke with step limit L runs at most L + 1 node bodies
\* before it returns or fails, whatever the graph and whatever the bodies do
\* (raise, leave __EDGE__ alone, name any edge).
C33_AtMostLimitPlusOneBodies ==
    /\ pc = "loop" => (Len(ran) <= limit /\ Len(ran) = steps)
    /\ result.op = "invoke" => Len(result.ran) <= result.limit + 1

\* An invoke ended by the step limit after running L + 1 bodies, one of
\* which raised.
C33_Witness ==
    /\ pc = "idle"
    /\ result.op = "invoke"
    /\ result.err = "RuntimeError"
    /\ Len(result.ran) = result.limit + 1
    /\ ~result.obeyed

\* C34: in every state reached by registrations and compile calls on the
\* instances of one class, an instance marked compiled has a registry that
\* satisfies the compile rules: exactly one entry node, which is its stored
\* start node, and every edge target is END or a registered node.
C34_CompiledRegistryIsValid ==
    \A i \in Inst :
        (phase = "defined" /\ is_initialized[i])
            => /\ StartNodes(NodesOf(i)) = {start_node[i]}
               /\ ~Dangling(NodesOf(i))

\* C35: the router never delegates to a route that is unavailable: when
\* invoke_route invokes a route, isAvailable(parent_state) of that route is
\* true, whatever route name the response generator returned.
C35_DelegatesOnlyToAvailable ==
    [][(pc = "loop" /\ state.EDGE = "invoke_route" /\ delegated' # delegated)
          => IsAvailable(RouteAt(routes, delegated'.route))]_vars

\* C36: ChatAgent.invoke never reaches END while the router state's
\* __RESUME__ is non-empty: after auto_resume has run with a resume
\* pending the node to dispatch is invoke_route, and __EDGE__ is END only
\* when no resume is pending.
C36_NoEndWhileResumePending ==
    /\ state.EDGE = END => router_agent.state.RESUME = ""
    /\ (pc = "loop" /\ ran # <<>> /\ Last(ran) = "auto_resume"
           /\ router_agent.state.RESUME # "")
          => state.EDGE = "invoke_route"

\* An invoke in which the route suspended, auto_resume sent control back to
\* invoke_route, the route finished, and END was reached.
C36_Witness ==
    /\ pc = "idle"
    /\ result.op = "invoke"
    /\ state.EDGE = END
    /\ router_agent.state.RESUME = ""
    /\ result.ran = <<"invoke_intake", "invoke_route", "chat_message", "auto_resume",
                      "invoke_route", "chat_message", "auto_resume">>

\* The node map with the interrupt flag of every edge removed.
Unflagged(reg) ==
    [n \in DOMAIN reg |->
        [reg[n] EXCEPT !.edge_map =
            [k \in 1..Len(reg[n].edge_map) |->
                [reg[n].edge_map[k] EXCEPT !.interrupt = FALSE]]]]

\* C37: interrupt edges only split an execution: on a graph just compiled
\* whose state is new, for deterministic bodies and no step limit reached,
\* the bodies run by an invoke and the invokes resuming it are, in order,
\* the bodies run by a single invoke of the same graph with the interrupt
\* flags removed (both runs followed up to MaxBodies body calls).
C37_InterruptsOnlySplit ==
    (/\ pc = "idle"
     /\ result.op = "compile"
     /\ result.status = "returned"
     /\ state = FreshState
     /\ Unflagged(nodes) # nodes)
        => \A strat \in Strategies :
              LET split  == InvokeUntilDone(nodes, strat, FreshState, MaxBodies, <<>>, 0)
                  single == EngineInvoke(Unflagged(nodes), strat, FreshState, 0, MaxBodies)
              IN  split.ran = single.ran

\* A compiled graph on which some run suspends and, resumed, calls a
\* further body.
C37_Witness ==
    /\ pc = "idle"
    /\ result.op = "compile"
    /\ result.status = "returned"
    /\ state = FreshState
    /\ \E strat \in Strategies :
          LET split == InvokeUntilDone(nodes, strat, FreshState, MaxBodies, <<>>, 0)
              first == EngineInvoke(nodes, strat, FreshState, 0, MaxBodies)
          IN  /\ split.exc = ""
              /\ split.invokes > 1
              /\ Len(split.ran) > Len(first.ran)

\* The targets after the first k refinements of staging were applied in
\* order, as the description has it: add appends a new target, modify
\* replaces the target with the matching id, delete removes it.
RECURSIVE AppliedUpTo(_, _, _, _)
AppliedUpTo(staging, k, targets, next) ==
    IF k = 0 THEN [targets |-> targets, next |-> next]
    ELSE LET before == AppliedUpTo(staging, k - 1, targets, next)
             r == staging[k]
             Other(t) == t.id # r.refinement_target_id
         IN  CASE r.operation = "add" ->
                    [targets |-> before.targets \o
                                 <<[id |-> Id(IdPrefix, before.next), by |-> r.id]>>,
                     next |-> before.next + 1]
               [] r.operation = "modify" ->
                    [targets |-> [j \in 1..Len(before.targets) |->
                                     IF Other(before.targets[j]) THEN before.targets[j]
                                     ELSE [id |-> before.targets[j].id, by |-> r.id]],
                     next |-> before.next]
               [] r.operation = "delete" ->
                    [targets |-> SelectSeq(before.targets, Other), next |-> before.next]
               [] OTHER -> before

\* The staged list of the call in refining after the batch's meta edits,
\* and the number the id factory gives next at that point.
StagingOfCall ==
    LET ids == AssignIds(refining.new_refinements, 1, refining.next) IN
    [staged |-> MetaEdits(Metas(ids.refinements), 1, refining.state_refinements),
     next |-> ids.next]

\* The batch of the call in refining holds a commit.
CommitInBatch ==
    \E k \in 1..Len(refining.new_refinements) :
        refining.new_refinements[k].operation = "commit"

\* C38: with a commit in the batch apply_refinements applies every staged
\* refinement, as left by the batch's meta edits, to the targets in staging
\* order and returns an empty staged list; without a commit the returned
\* targets are the input targets.
C38_CommitAppliesStagedInOrder ==
    refining.returned =>
        IF CommitInBatch
        THEN /\ refining.updated_refinements = <<>>
             /\ refining.updated_targets =
                    AppliedUpTo(StagingOfCall.staged, Len(StagingOfCall.staged),
                                refining.state_targets, StagingOfCall.next).targets
        ELSE refining.updated_targets = refining.state_targets

\* A commit in a batch whose meta edits changed the staged list, with an add
\* and a delete staged and a target removed and one appended.
C38_Witness ==
    /\ refining.returned
    /\ CommitInBatch
    /\ StagingOfCall.staged # refining.state_refinements
    /\ \E i, j \in 1..Len(StagingOfCall.staged) :
          /\ StagingOfCall.staged[i].operation = "add"
          /\ StagingOfCall.staged[j].operation = "delete"
    /\ refining.state_targets # <<>>
    /\ \A k \in 1..Len(refining.updated_targets) :
          refining.updated_targets[k].id # Id(IdPrefix, 1)
    /\ refining.updated_targets # <<>>

\* The refinements of the batch in refining, with the ids the call gave them.
SubmittedOfCall == AssignIds(refining.new_refinements, 1, refining.next).refinements

\* Refinement r shows in the targets returned: the target it adds or
\* modifies is made from it, the target it deletes is gone.
Reflected(r) ==
    CASE r.operation = "delete" ->
            \A k \in 1..Len(refining.updated_targets) :
                refining.updated_targets[k].id # r.refinement_target_id
      [] OTHER ->
            \E k \in 1..Len(refining.updated_targets) :
                refining.updated_targets[k].by = r.id

\* C39: apply_refinements loses no submitted refinement: every refinement
\* of the batch that is neither meta nor a commit is, after the call, in
\* the returned staged list or reflected in the returned targets, also
\* when the batch holds a commit.
C39_NoSubmittedRefinementLost ==
    refining.returned =>
        \A k \in 1..Len(SubmittedOfCall) :
            LET r == SubmittedOfCall[k] IN
            (~fn_is_meta_refinement(r) /\ r.operation # "commit")
                => \/ \E j \in 1..Len(refining.updated_refinements) :
                          refining.updated_refinements[j].id = r.id
                   \/ Reflected(r)
====
